---- MODULE Spec2Model ----
(***************************************************************************)
(* Transcript consolidation of the DNA note assistant.                     *)
(*                                                                         *)
(*  - the segment store: cleanText, getAbsKey, mergeByAbsoluteUtc and      *)
(*    groupSegmentsBySpeaker of lib/transcription-display.tsx, driven by   *)
(*    the transcript handlers of useTranscriptionWebSocket;                *)
(*  - the session hook useTranscriptionWebSocket (start/stop effect and    *)
(*    the transport callbacks);                                            *)
(*  - the polling App of frontend/src/main.jsx (join, bot status polling,  *)
(*    transcript polling, pin/focus routing).                              *)
(*                                                                         *)
(* Texts are sequences of one-character strings.  A time string is a pair  *)
(* <<ms, sub>>: the millisecond instant that `new Date(s).getTime()`       *)
(* yields and the digits below a millisecond that the string also carries  *)
(* (the service sends microseconds, '2025-10-01T23:51:37.566260+00:00').   *)
(***************************************************************************)
EXTENDS Integers, Sequences, FiniteSets, TLC

VARIABLES
    segments,               \* useTranscriptionWebSocket: const [segments, setSegments]
    hist,                   \* history: every raw segment handed to a transcript handler, in order
    meetingId,              \* useTranscriptionWebSocket: the meetingId argument
    isLive,                 \* useTranscriptionWebSocket: the isLive argument
    meetingStatus,          \* const [meetingStatus, setMeetingStatus]
    error,                  \* const [error, setError]
    isWebSocketConnected,   \* const [isWebSocketConnected, setIsWebSocketConnected]
    internalMeetingId,      \* internalMeetingId.current
    cleanupArmed,           \* the start/stop effect returned its cleanup function
    subscriptions,          \* transport: the sessions startWebSocketTranscription opened and nobody stopped
    inflight,               \* transport: events sent for a session and not yet handed to a callback
    started,                \* transport: number of sessions opened so far
    rows,                   \* App: const [rows, setRows], the transcription of each row
    currentIndex,           \* App: currentIndex and currentIndexRef.current
    pinnedIndex,            \* App: const [pinnedIndex, setPinnedIndex]
    unpinned,               \* history: the pin button last released a pin
    isPollingTranscripts,   \* App: const [isPollingTranscripts, setIsPollingTranscripts]
    manualTranscriptPolling,\* App: const [manualTranscriptPolling, setManualTranscriptPolling]
    joinedMeetId,           \* App: const [joinedMeetId, setJoinedMeetId]
    meetId,                 \* App: const [meetId, setMeetId]
    botIsActive,            \* App: const [botIsActive, setBotIsActive]
    waitingForActive,       \* App: const [waitingForActive, setWaitingForActive]
    submitting,             \* App: const [submitting, setSubmitting]
    status,                 \* App: const [status, setStatus], the message
    lastSegmentIndex,       \* App: lastSegmentIndex and lastSegmentIndexRef.current
    pollingInterval,        \* App: pollingIntervalRef.current with the closure of its callback
    botStatusInterval,      \* App: botStatusIntervalRef.current with the closure of its callback
    intervals,              \* browser: the setInterval timers not cleared, per kind, each with its handle and closure
    mounted,                \* App: the component is mounted
    submitInflight,         \* App: POST /submit-meet-id awaited by handleSubmit
    statusInflight,         \* App: GET /bot-status requests awaited by pollBotStatus
    transcriptInflight,     \* App: GET /transcripts requests awaited by fetchTranscripts
    exitInflight,           \* App: POST /stop-bot awaited by handleExitBot
    issued,                 \* App: number of bot-status and transcript requests sent so far
    eventSourceRef,         \* App with webhook events: eventSourceRef.current (0 for null)
    eventSources,           \* EventSource objects not closed, each with the closure of its onerror
    reconnectTimers,        \* pending setTimeout callbacks of onerror, each with its closure
    botStatus,              \* App with webhook events: const [botStatus, setBotStatus]
    opened,                 \* number of EventSource objects created so far
    scheduled,              \* number of reconnect timeouts set so far
    inputText,              \* splitTextIntoSentenceChunks: the text argument
    inputMaxLen,            \* splitTextIntoSentenceChunks: the maxLen argument
    outputChunks,           \* splitTextIntoSentenceChunks: the returned chunks
    returned,               \* splitTextIntoSentenceChunks has returned
    grouperInput,           \* groupSegmentsBySpeaker: the segments argument
    grouperGroups,          \* groupSegmentsBySpeaker: `groups` when the grouping loop has ended
    grouperSplitGroups,     \* groupSegmentsBySpeaker: the returned `splitGroups`
    grouperReturned,        \* groupSegmentsBySpeaker has returned
    activeVersion,          \* StateManager: state.activeVersion
    versions,               \* StateManager: state.versions
    agentCallback,          \* VexaTranscriptionAgent: a user callback is held in _callback
    callbackLog,            \* history: the transcripts handed to the user callback, in order
    agentHist,              \* history: the WebSocket messages handled by the agent, in order
    versionHist,            \* history: the ids passed to setVersion, in order
    vexaBaseUrl,            \* VexaTranscriptionAgent: _baseUrl is set (VEXA_URL)
    vexaApiKey,             \* VexaTranscriptionAgent: _apiKey is set (VEXA_API_KEY)
    vexaPlatform,           \* VexaTranscriptionAgent: _platform is set (PLATFORM)
    vexaMeetingId,          \* VexaTranscriptionAgent: _meetingId
    vexaBotId,              \* VexaTranscriptionAgent: _botId
    vexaWs,                 \* VexaTranscriptionAgent: _ws, the index of a WebSocket
    webSockets,             \* the WebSockets the agent created: readyState, subscribed meeting
    joinCalls,              \* the joinMeeting calls that await something
    leaveCalls,             \* the leaveMeeting calls that await their DELETE
    callsMade,              \* history: the number of joinMeeting and leaveMeeting calls
    hasLeft,                \* history: a leaveMeeting resolved and no joinMeeting was called since
    settled,                \* history: the calls that resolved or rejected, in order
    playlistId,             \* useDraftNote: the playlistId parameter (0 for null)
    versionId,              \* useDraftNote: the versionId parameter (0 for null)
    userEmail,              \* useDraftNote: the userEmail parameter ("" for null)
    localDraft,             \* useDraftNote: const [localDraft, setLocalDraft] (<<>> for null)
    debounceTimerRef,       \* useDraftNote: debounceTimerRef.current (0 for null)
    pendingMutationRef,     \* useDraftNote: pendingMutationRef.current, the upsert it awaits (0 for null)
    pendingDataRef,         \* useDraftNote: pendingDataRef.current (<<>> for null)
    hasInitializedRef,      \* useDraftNote: hasInitializedRef.current
    serverDraft,            \* useDraftNote: data of the draft-note query (<<>> for undefined or null)
    isLoading,              \* useDraftNote: isLoading of the draft-note query
    timeouts,               \* browser: the ids of the setTimeout timers neither fired nor cleared
    upserts,                \* the upsertDraftNote calls made so far, each with its target and data
    deletes,                \* number of deleteDraftNote calls made so far
    draftMounted,           \* the component that calls useDraftNote is mounted
    edits,                  \* history: number of updateDraftNote calls accepted so far
    owed                    \* history: per field, the latest accepted value no upsert carried yet

storeVars == <<segments, hist>>

hookVars == <<meetingId, isLive, meetingStatus, error, isWebSocketConnected,
              internalMeetingId, cleanupArmed, subscriptions, inflight, started>>

appVars == <<rows, currentIndex, pinnedIndex, unpinned, isPollingTranscripts,
             manualTranscriptPolling, joinedMeetId, meetId, botIsActive, waitingForActive,
             submitting, status, lastSegmentIndex, pollingInterval, botStatusInterval,
             intervals, submitInflight, statusInflight, transcriptInflight, exitInflight,
             issued>>

lifeVars == <<mounted>>

vars == <<segments, hist, meetingId, isLive, meetingStatus, error, isWebSocketConnected,
          internalMeetingId, cleanupArmed, subscriptions, inflight, started,
          rows, currentIndex, pinnedIndex, unpinned, isPollingTranscripts,
          manualTranscriptPolling, joinedMeetId, meetId, botIsActive, waitingForActive,
          submitting, status, lastSegmentIndex, pollingInterval, botStatusInterval,
          intervals, mounted,
          submitInflight, statusInflight, transcriptInflight, exitInflight, issued,
          eventSourceRef, eventSources, reconnectTimers, botStatus, opened, scheduled,
          inputText, inputMaxLen, outputChunks, returned,
          grouperInput, grouperGroups, grouperSplitGroups, grouperReturned,
          activeVersion, versions, agentCallback, callbackLog, agentHist, versionHist,
          vexaBaseUrl, vexaApiKey, vexaPlatform, vexaMeetingId, vexaBotId, vexaWs,
          webSockets, joinCalls, leaveCalls, callsMade, hasLeft, settled,
          playlistId, versionId, userEmail, localDraft, debounceTimerRef, pendingMutationRef,
          pendingDataRef, hasInitializedRef, serverDraft, isLoading, timeouts, upserts,
          deletes, draftMounted, edits, owed>>

sseVars == <<eventSourceRef, eventSources, reconnectTimers, botStatus, opened, scheduled>>

\* what the actions of one component leave alone
chunkVars == <<inputText, inputMaxLen, outputChunks, returned>>

grouperVars == <<grouperInput, grouperGroups, grouperSplitGroups, grouperReturned>>

agentVars == <<activeVersion, versions, agentCallback, callbackLog, agentHist, versionHist>>

sessionVars == <<vexaBaseUrl, vexaApiKey, vexaPlatform, vexaMeetingId, vexaBotId, vexaWs,
                 webSockets, joinCalls, leaveCalls, callsMade, hasLeft, settled>>

draftVars == <<playlistId, versionId, userEmail, localDraft, debounceTimerRef,
               pendingMutationRef, pendingDataRef, hasInitializedRef, serverDraft, isLoading,
               timeouts, upserts, deletes, draftMounted, edits, owed>>

storeFrame == <<hookVars, appVars, sseVars, chunkVars, grouperVars, agentVars, sessionVars,
              lifeVars, draftVars>>
hookFrame == <<appVars, sseVars, chunkVars, grouperVars, agentVars, sessionVars, lifeVars, draftVars>>
appFrame == <<storeVars, hookVars, sseVars, chunkVars, grouperVars, agentVars, sessionVars,
              lifeVars, draftVars>>
sseFrame == <<storeVars, hookVars, chunkVars, grouperVars, agentVars, sessionVars, lifeVars, draftVars>>
chunkFrame == <<storeVars, hookVars, appVars, sseVars, grouperVars, agentVars, sessionVars,
              lifeVars, draftVars>>
grouperFrame == <<storeVars, hookVars, appVars, sseVars, chunkVars, agentVars, sessionVars, lifeVars, draftVars>>
agentFrame == <<hookVars, appVars, sseVars, chunkVars, grouperVars, sessionVars, lifeVars, draftVars>>
sessionFrame == <<storeVars, hookVars, appVars, sseVars, chunkVars, grouperVars, lifeVars, draftVars>>

----------------------------------------------------------------------------
(* Bounds                                                                  *)

MaxDeliveries == 3      \* raw segments delivered in one behaviour

----------------------------------------------------------------------------
(* Values                                                                  *)

NoTime == <<0, 0>>      \* absolute_start_time / timestamp / created_at missing (falsy)
NoUpd == 0              \* updated_at missing (falsy)
NoSpeaker == ""         \* speaker missing (falsy)
NoUtc == <<-1, 0>>      \* the synthetic `no-utc-<id>` key

WS == " "

Seg(abs, upd, text, speaker) ==
    [absolute_start_time |-> abs, absolute_end_time |-> abs, timestamp |-> NoTime,
     created_at |-> NoTime, updated_at |-> upd, text |-> text, speaker |-> speaker]

\* two time strings of the same millisecond, one of a later millisecond
Keys == {<<1, 0>>, <<1, 1>>, <<2, 0>>}

\* updated_at: missing, an older and a newer revision
Revisions == {NoUpd, 1, 2}

Payloads == {[text |-> <<"a">>, speaker |-> "A"],
             [text |-> <<" ", "b", " ", " ", "c">>, speaker |-> NoSpeaker]}

ValidSegments ==
    {Seg(k, u, p.text, p.speaker) : k \in Keys, u \in Revisions, p \in Payloads}

IncompleteSegments ==
    {Seg(NoTime, 1, <<"a">>, "A"), Seg(<<1, 0>>, 2, <<" ">>, "A")}

RawSegments == ValidSegments \cup IncompleteSegments

\* a segmentsUpdated event carries one segment or two
Batches == {<<a>> : a \in RawSegments} \cup {<<a, b>> : a \in RawSegments, b \in RawSegments}

----------------------------------------------------------------------------
(* lib/transcription-display.tsx                                           *)

RECURSIVE TrimStart(_)
TrimStart(t) ==
    IF t # <<>> /\ Head(t) = WS THEN TrimStart(Tail(t)) ELSE t

RECURSIVE TrimEnd(_)
TrimEnd(t) ==
    IF t # <<>> /\ t[Len(t)] = WS THEN TrimEnd(SubSeq(t, 1, Len(t) - 1)) ELSE t

\* text.replace(/\s+/g, " "): every run of whitespace becomes one space,
\* so a whitespace character stays iff it is the first of its run
CollapseWs(t) ==
    LET FirstOfRun(i) == ~(t[i] = WS /\ i > 1 /\ t[i - 1] = WS)
        kept == SelectSeq([i \in 1..Len(t) |-> i], FirstOfRun)
    IN  [j \in 1..Len(kept) |-> t[kept[j]]]

cleanText(text) ==
    IF text = <<>> THEN <<>> ELSE CollapseWs(TrimEnd(TrimStart(text)))

getAbsKey(segment) ==
    IF segment.absolute_start_time # NoTime THEN segment.absolute_start_time
    ELSE IF segment.timestamp # NoTime THEN segment.timestamp
    ELSE IF segment.created_at # NoTime THEN segment.created_at
    ELSE NoUtc

\* new Date(a.absolute_start_time || a.timestamp).getTime()
DateTime(s) ==
    IF s.absolute_start_time # NoTime THEN s.absolute_start_time[1] ELSE s.timestamp[1]

\* the Map of mergeByAbsoluteUtc: entries in insertion order
MapHas(map, key) == \E i \in 1..Len(map) : map[i].key = key

MapGet(map, key) == map[CHOOSE i \in 1..Len(map) : map[i].key = key].val

\* a plausible slip: the record is pushed without looking for its key
MapSet_Push(map, key, val) ==
    Append(map, [key |-> key, val |-> val])

MapSet(map, key, val) ==
    IF MapHas(map, key)
    THEN [i \in 1..Len(map) |-> IF map[i].key = key THEN [key |-> key, val |-> val] ELSE map[i]]
    ELSE Append(map, [key |-> key, val |-> val])

MapValues(map) == [i \in 1..Len(map) |-> map[i].val]

Cleaned(s) == [s EXCEPT !.text = cleanText(s.text)]

\* a plausible slip: no revision check, the incoming record always replaces
KeepsExisting_Never(existing, candidate) ==
    FALSE

\* a plausible slip: first write wins when a revision marker is missing
KeepsExisting_FirstWins(existing, candidate) ==
    \/ existing.updated_at = NoUpd
    \/ candidate.updated_at = NoUpd
    \/ candidate.updated_at < existing.updated_at

\* the incoming record is dropped: both sides carry updated_at and the incoming one is older
KeepsExisting(existing, candidate) ==
    /\ existing.updated_at # NoUpd
    /\ candidate.updated_at # NoUpd
    /\ candidate.updated_at < existing.updated_at

RECURSIVE LoadPrev(_, _)
LoadPrev(map, prev) ==
    IF prev = <<>> THEN map
    ELSE LET s == Head(prev)
             key == getAbsKey(s)
         IN  IF key = NoUtc THEN LoadPrev(map, Tail(prev))
             ELSE LoadPrev(MapSet(map, key, Cleaned(s)), Tail(prev))

Upsert(map, s) ==
    IF s.absolute_start_time = NoTime THEN map
    ELSE LET key == getAbsKey(s)
             candidate == Cleaned(s)
         IN  IF key = NoUtc THEN map
             ELSE IF MapHas(map, key) /\ KeepsExisting(MapGet(map, key), candidate) THEN map
             ELSE MapSet(map, key, candidate)

RECURSIVE UpsertAll(_, _)
UpsertAll(map, incoming) ==
    IF incoming = <<>> THEN map
    ELSE UpsertAll(Upsert(map, Head(incoming)), Tail(incoming))

\* Array.prototype.sort is stable: equal times keep their order
RECURSIVE InsertByTime(_, _)
InsertByTime(sorted, s) ==
    IF sorted = <<>> THEN <<s>>
    ELSE IF DateTime(s) - DateTime(sorted[Len(sorted)]) >= 0 THEN Append(sorted, s)
    ELSE Append(InsertByTime(SubSeq(sorted, 1, Len(sorted) - 1), s), sorted[Len(sorted)])

RECURSIVE SortByTime(_)
SortByTime(a) ==
    IF a = <<>> THEN <<>>
    ELSE InsertByTime(SortByTime(SubSeq(a, 1, Len(a) - 1)), a[Len(a)])

mergeByAbsoluteUtc(prev, incoming) ==
    SortByTime(MapValues(UpsertAll(LoadPrev(<<>>, prev), incoming)))

MAX_CHARS == 512

IsBoundaryPunct(c) == c \in {".", "!", "?"}

\* normalized.split(/(?<=[.!?])\s+/) on a text whose whitespace runs are single spaces:
\* the text is cut at every space that follows '.', '!' or '?'
SplitSentences(normalized) ==
    LET IsCut(i) == i > 1 /\ normalized[i] = WS /\ IsBoundaryPunct(normalized[i - 1])
        cuts == SelectSeq([i \in 1..Len(normalized) |-> i], IsCut)
        n == Len(cuts)
        from(k) == IF k = 1 THEN 1 ELSE cuts[k - 1] + 1
        to(k) == IF k = n + 1 THEN Len(normalized) ELSE cuts[k] - 1
    IN  [k \in 1..(n + 1) |-> SubSeq(normalized, from(k), to(k))]

\* a plausible slip: a sentence that fills the chunk exactly is not appended
PackStep_FlushesEarly(st, sentence, maxLen) ==
    IF Len(st.current) = 0
    THEN IF Len(sentence) > maxLen
         THEN [chunks |-> Append(st.chunks, sentence), current |-> <<>>]
         ELSE [chunks |-> st.chunks, current |-> sentence]
    ELSE IF Len(st.current) + 1 + Len(sentence) < maxLen
         THEN [chunks |-> st.chunks, current |-> st.current \o <<WS>> \o sentence]
         ELSE IF Len(sentence) > maxLen
              THEN [chunks |-> Append(Append(st.chunks, st.current), sentence), current |-> <<>>]
              ELSE [chunks |-> Append(st.chunks, st.current), current |-> sentence]

\* a plausible slip: the open chunk is lost when an oversized sentence follows it
PackStep_DropsCurrent(st, sentence, maxLen) ==
    IF Len(st.current) = 0
    THEN IF Len(sentence) > maxLen
         THEN [chunks |-> Append(st.chunks, sentence), current |-> <<>>]
         ELSE [chunks |-> st.chunks, current |-> sentence]
    ELSE IF Len(st.current) + 1 + Len(sentence) <= maxLen
         THEN [chunks |-> st.chunks, current |-> st.current \o <<WS>> \o sentence]
         ELSE IF Len(sentence) > maxLen
              THEN [chunks |-> Append(st.chunks, sentence), current |-> <<>>]
              ELSE [chunks |-> Append(st.chunks, st.current), current |-> sentence]

\* a plausible slip: the separating space is not counted
PackStep_NoSeparator(st, sentence, maxLen) ==
    IF Len(st.current) = 0
    THEN IF Len(sentence) > maxLen
         THEN [chunks |-> Append(st.chunks, sentence), current |-> <<>>]
         ELSE [chunks |-> st.chunks, current |-> sentence]
    ELSE IF Len(st.current) + Len(sentence) <= maxLen
         THEN [chunks |-> st.chunks, current |-> st.current \o <<WS>> \o sentence]
         ELSE IF Len(sentence) > maxLen
              THEN [chunks |-> Append(Append(st.chunks, st.current), sentence), current |-> <<>>]
              ELSE [chunks |-> Append(st.chunks, st.current), current |-> sentence]

\* the packing loop: st = [chunks, current]
PackStep(st, sentence, maxLen) ==
    IF Len(st.current) = 0
    THEN IF Len(sentence) > maxLen
         THEN [chunks |-> Append(st.chunks, sentence), current |-> <<>>]
         ELSE [chunks |-> st.chunks, current |-> sentence]
    ELSE IF Len(st.current) + 1 + Len(sentence) <= maxLen
         THEN [chunks |-> st.chunks, current |-> st.current \o <<WS>> \o sentence]
         ELSE IF Len(sentence) > maxLen
              THEN [chunks |-> Append(Append(st.chunks, st.current), sentence), current |-> <<>>]
              ELSE [chunks |-> Append(st.chunks, st.current), current |-> sentence]

RECURSIVE PackAll(_, _, _)
PackAll(st, sentences, maxLen) ==
    IF sentences = <<>> THEN st
    ELSE PackAll(PackStep(st, Head(sentences), maxLen), Tail(sentences), maxLen)

\* a plausible slip: a single long sentence is cut at maxLen
splitTextIntoSentenceChunks_Truncates(text, maxLen) ==
    LET normalized == CollapseWs(TrimEnd(TrimStart(text)))
        sentences == SplitSentences(normalized)
        packed == PackAll([chunks |-> <<>>, current |-> <<>>], sentences, maxLen)
    IN  IF Len(normalized) <= maxLen THEN <<normalized>>
        ELSE IF Len(sentences) = 1 THEN <<SubSeq(normalized, 1, maxLen)>>
        ELSE IF Len(packed.current) > 0 THEN Append(packed.chunks, packed.current)
        ELSE packed.chunks

splitTextIntoSentenceChunks(text, maxLen) ==
    LET normalized == CollapseWs(TrimEnd(TrimStart(text)))
        sentences == SplitSentences(normalized)
        packed == PackAll([chunks |-> <<>>, current |-> <<>>], sentences, maxLen)
    IN  IF Len(normalized) <= maxLen THEN <<normalized>>
        ELSE IF Len(sentences) = 1 THEN <<normalized>>
        ELSE IF Len(packed.current) > 0 THEN Append(packed.chunks, packed.current)
        ELSE packed.chunks

UnknownSpeaker == "Unknown Speaker"

\* the comparator of groupSegmentsBySpeaker's sort: entries with an absolute time first
GroupCompare(a, b) ==
    LET aHasUtc == a.absolute_start_time # NoTime
        bHasUtc == b.absolute_start_time # NoTime
    IN  IF aHasUtc /\ ~bHasUtc THEN -1
        ELSE IF ~aHasUtc /\ bHasUtc THEN 1
        ELSE DateTime(a) - DateTime(b)

RECURSIVE InsertForGroup(_, _)
InsertForGroup(sorted, s) ==
    IF sorted = <<>> THEN <<s>>
    ELSE IF GroupCompare(sorted[Len(sorted)], s) <= 0 THEN Append(sorted, s)
    ELSE Append(InsertForGroup(SubSeq(sorted, 1, Len(sorted) - 1), s), sorted[Len(sorted)])

RECURSIVE SortForGroup(_)
SortForGroup(a) ==
    IF a = <<>> THEN <<>>
    ELSE InsertForGroup(SortForGroup(SubSeq(a, 1, Len(a) - 1)), a[Len(a)])

\* a plausible slip: the skip tests the raw text instead of the normalized text
GroupStep_SkipsOnRawText(groups, seg) ==
    LET speaker == IF seg.speaker # NoSpeaker THEN seg.speaker ELSE UnknownSpeaker
        text == cleanText(seg.text)
        startTime == IF seg.absolute_start_time # NoTime THEN seg.absolute_start_time ELSE seg.timestamp
        endTime == IF seg.absolute_end_time # NoTime THEN seg.absolute_end_time ELSE seg.timestamp
        n == Len(groups)
    IN  IF seg.text = <<>> THEN groups
        ELSE IF n > 0 /\ groups[n].speaker = speaker
             THEN [groups EXCEPT ![n] = [@ EXCEPT !.combinedText = @ \o <<WS>> \o text,
                                                  !.endTime = endTime,
                                                  !.segments = Append(@, seg)]]
             ELSE Append(groups, [speaker |-> speaker, startTime |-> startTime, endTime |-> endTime,
                                  combinedText |-> text, segments |-> <<seg>>,
                                  isMutable |-> FALSE, isHighlighted |-> FALSE])

\* a plausible slip: the segment joins the open group whatever its speaker
GroupStep_IgnoresSpeaker(groups, seg) ==
    LET speaker == IF seg.speaker # NoSpeaker THEN seg.speaker ELSE UnknownSpeaker
        text == cleanText(seg.text)
        startTime == IF seg.absolute_start_time # NoTime THEN seg.absolute_start_time ELSE seg.timestamp
        endTime == IF seg.absolute_end_time # NoTime THEN seg.absolute_end_time ELSE seg.timestamp
        n == Len(groups)
    IN  IF text = <<>> THEN groups
        ELSE IF n > 0
             THEN [groups EXCEPT ![n] = [@ EXCEPT !.combinedText = @ \o <<WS>> \o text,
                                                  !.endTime = endTime,
                                                  !.segments = Append(@, seg)]]
             ELSE Append(groups, [speaker |-> speaker, startTime |-> startTime, endTime |-> endTime,
                                  combinedText |-> text, segments |-> <<seg>>,
                                  isMutable |-> FALSE, isHighlighted |-> FALSE])

\* the grouping loop: groups with the open group (if any) as last element
GroupStep(groups, seg) ==
    LET speaker == IF seg.speaker # NoSpeaker THEN seg.speaker ELSE UnknownSpeaker
        text == cleanText(seg.text)
        startTime == IF seg.absolute_start_time # NoTime THEN seg.absolute_start_time ELSE seg.timestamp
        endTime == IF seg.absolute_end_time # NoTime THEN seg.absolute_end_time ELSE seg.timestamp
        n == Len(groups)
    IN  IF text = <<>> THEN groups
        ELSE IF n > 0 /\ groups[n].speaker = speaker
             THEN [groups EXCEPT ![n] = [@ EXCEPT !.combinedText = @ \o <<WS>> \o text,
                                                  !.endTime = endTime,
                                                  !.segments = Append(@, seg)]]
             ELSE Append(groups, [speaker |-> speaker, startTime |-> startTime, endTime |-> endTime,
                                  combinedText |-> text, segments |-> <<seg>>,
                                  isMutable |-> FALSE, isHighlighted |-> FALSE])

RECURSIVE GroupAll(_, _)
GroupAll(groups, sorted) ==
    IF sorted = <<>> THEN groups
    ELSE GroupAll(GroupStep(groups, Head(sorted)), Tail(sorted))

\* one group per chunk when the combined text splits into several chunks
SplitGroup(g) ==
    LET chunks == splitTextIntoSentenceChunks(g.combinedText, MAX_CHARS)
    IN  IF Len(chunks) <= 1 THEN <<g>>
        ELSE [i \in 1..Len(chunks) |-> [g EXCEPT !.combinedText = chunks[i]]]

RECURSIVE SplitGroups(_)
SplitGroups(groups) ==
    IF groups = <<>> THEN <<>>
    ELSE SplitGroup(Head(groups)) \o SplitGroups(Tail(groups))

groupSegmentsBySpeaker(segs) ==
    IF Len(segs) = 0 THEN <<>>
    ELSE SplitGroups(GroupAll(<<>>, SortForGroup(segs)))


----------------------------------------------------------------------------
(* useTranscriptionWebSocket: transcript handlers                          *)

HasText(segment) == segment.text # <<>> /\ TrimEnd(TrimStart(segment.text)) # <<>>

HasAbs(segment) == segment.absolute_start_time # NoTime

\* a plausible slip: the filter on the text is left out
validSegments_KeepsBlank(newSegments) ==
    LET kept == SelectSeq(newSegments, HasAbs)
    IN  [i \in 1..Len(kept) |-> Cleaned(kept[i])]

validSegments(newSegments) ==
    LET kept == SelectSeq(SelectSeq(newSegments, HasText), HasAbs)
    IN  [i \in 1..Len(kept) |-> Cleaned(kept[i])]

\* setSegments(prev => mergeByAbsoluteUtc(prev, validSegments))
ApplyTranscript(prev, newSegments) ==
    IF Len(validSegments(newSegments)) = 0 THEN prev
    ELSE mergeByAbsoluteUtc(prev, validSegments(newSegments))

handleWebSocketTranscriptMutable(newSegments) ==
    /\ Len(hist) + Len(newSegments) <= MaxDeliveries
    /\ segments' = ApplyTranscript(segments, newSegments)
    /\ hist' = hist \o newSegments

handleWebSocketTranscriptFinalized(newSegments) ==
    /\ Len(hist) + Len(newSegments) <= MaxDeliveries
    /\ segments' = ApplyTranscript(segments, newSegments)
    /\ hist' = hist \o newSegments

NoMeeting == <<>>        \* meetingId missing (falsy); a meeting id is its split('/') parts
NoInternalId == ""       \* internalMeetingId.current = null
NoStatus == ""           \* meetingStatus = null
NoError == ""            \* error = null

\* useState / useRef initial values, for isLive as passed
HookInitFor(live) ==
    /\ meetingId = NoMeeting
    /\ isLive = live
    /\ meetingStatus = (IF live THEN "connecting" ELSE NoStatus)
    /\ error = NoError
    /\ isWebSocketConnected = FALSE
    /\ internalMeetingId = NoInternalId
    /\ cleanupArmed = FALSE
    /\ subscriptions = {}
    /\ inflight = {}
    /\ started = 0

Null == -1               \* pinnedIndex null

NoHandle == 0            \* no interval id

NoPollTimer == [live |-> FALSE, meeting |-> "", pinned |-> Null, nrows |-> 0, handle |-> NoHandle]

NoStatusTimer ==
    [live |-> FALSE, meeting |-> "", isPolling |-> FALSE, waiting |-> FALSE, handle |-> NoHandle]

\* setInterval returns an id that no live interval has
NewHandle(table) == CHOOSE h \in 1..(Cardinality(table) + 1) :
                        /\ \A t \in table : t.handle # h
                        /\ \A g \in 1..(h - 1) : \E t \in table : t.handle = g

\* a clearInterval that has no effect
clearInterval_Forgets(table, ref) == table

\* if (ref.current) clearInterval(ref.current): the table without the interval of that id
clearInterval(table, ref) == IF ref.live THEN {t \in table : t.handle # ref.handle} ELSE table

\* useState / useRef initial values of App
AppInit ==
    /\ rows = <<>>
    /\ currentIndex = 0
    /\ pinnedIndex = Null
    /\ unpinned = FALSE
    /\ isPollingTranscripts = FALSE
    /\ manualTranscriptPolling = FALSE
    /\ joinedMeetId = ""
    /\ meetId = ""
    /\ botIsActive = FALSE
    /\ waitingForActive = FALSE
    /\ submitting = FALSE
    /\ status = ""
    /\ lastSegmentIndex = -1
    /\ pollingInterval = NoPollTimer
    /\ botStatusInterval = NoStatusTimer
    /\ intervals = [transcript |-> {}, status |-> {}]
    /\ mounted = TRUE
    /\ submitInflight = {}
    /\ statusInflight = {}
    /\ transcriptInflight = {}
    /\ exitInflight = {}
    /\ issued = [status |-> 0, transcript |-> 0]

\* App with webhook events: useState / useRef initial values
SseInit ==
    /\ eventSourceRef = 0
    /\ eventSources = {}
    /\ reconnectTimers = {}
    /\ botStatus = ""
    /\ opened = 0
    /\ scheduled = 0

\* no call of splitTextIntoSentenceChunks under way
ChunkIdle ==
    /\ inputText = <<>>
    /\ inputMaxLen = 0
    /\ outputChunks = <<>>
    /\ returned = FALSE

\* no call of groupSegmentsBySpeaker under way
GrouperIdle ==
    /\ grouperInput = <<>>
    /\ grouperGroups = <<>>
    /\ grouperSplitGroups = <<>>
    /\ grouperReturned = FALSE

\* new StateManager(): state = { activeVersion: 0, versions: [] }
StateManagerInit ==
    /\ activeVersion = 0
    /\ versions = <<>>
    /\ versionHist = <<>>

NoWs == 0                \* _ws = null
NoBot == ""              \* _botId = null
NoMeetingId == ""        \* _meetingId = null

\* new VexaTranscriptionAgent(stateManager) under the environment variables
\* as given: no meeting, no bot, no WebSocket
AgentConstructed(baseUrl, apiKey, platform) ==
    /\ vexaBaseUrl = baseUrl
    /\ vexaApiKey = apiKey
    /\ vexaPlatform = platform
    /\ vexaMeetingId = NoMeetingId
    /\ vexaBotId = NoBot
    /\ vexaWs = NoWs
    /\ webSockets = <<>>
    /\ joinCalls = {}
    /\ leaveCalls = {}
    /\ callsMade = 0
    /\ hasLeft = FALSE
    /\ settled = <<>>

Absent == "(absent)"     \* a key that a Partial<LocalDraftNote> does not have

EditFields == {"content", "subject"}

NothingOwed == [f \in EditFields |-> Absent]

\* no component calls useDraftNote
DraftIdle ==
    /\ playlistId = 0 /\ versionId = 0 /\ userEmail = ""
    /\ localDraft = <<>>
    /\ debounceTimerRef = 0
    /\ pendingMutationRef = 0
    /\ pendingDataRef = <<>>
    /\ hasInitializedRef = FALSE
    /\ serverDraft = <<>>
    /\ isLoading = FALSE
    /\ timeouts = {}
    /\ upserts = <<>>
    /\ deletes = 0
    /\ draftMounted = FALSE
    /\ edits = 0
    /\ owed = NothingOwed

\* a VexaTranscriptionAgent without user callback that has handled no message
AgentIdle ==
    /\ StateManagerInit
    /\ AgentConstructed(TRUE, TRUE, TRUE)
    /\ agentCallback = FALSE
    /\ callbackLog = <<>>
    /\ agentHist = <<>>

StoreInit ==
    /\ segments = <<>>
    /\ hist = <<>>
    /\ HookInitFor(TRUE)
    /\ AppInit
    /\ DraftIdle
    /\ SseInit
    /\ ChunkIdle
    /\ GrouperIdle
    /\ AgentIdle

StoreNext ==
    \/ \E b \in Batches : handleWebSocketTranscriptMutable(b) /\ UNCHANGED storeFrame
    \/ \E b \in Batches : handleWebSocketTranscriptFinalized(b) /\ UNCHANGED storeFrame

SpecStore == StoreInit /\ [][StoreNext]_vars

----------------------------------------------------------------------------
(* useTranscriptionWebSocket: session lifecycle                            *)

MaxSessions == 2        \* sessions opened in one behaviour
MaxInflight == 2        \* events in flight at one time

Meetings == {<<"google_meet", "m1">>, <<"m2">>}

Statuses == {"active", "joining", "completed", "failed", "error"}

TerminalStatuses == {"completed", "failed", "error"}

MutableBatch == <<Seg(<<1, 0>>, 1, <<"a">>, "A")>>

FinalizedBatch == <<Seg(<<2, 0>>, 2, <<" ", "b", " ", " ", "c">>, NoSpeaker)>>

Event(session, kind, st, batch) ==
    [session |-> session, kind |-> kind, status |-> st, segments |-> batch]

\* what the service may send for a session
EventsOf(session) ==
    {Event(session, "transcript.mutable", "", MutableBatch),
     Event(session, "transcript.finalized", "", FinalizedBatch),
     Event(session, "error", "", <<>>),
     Event(session, "connected", "", <<>>),
     Event(session, "disconnected", "", <<>>)}
    \cup {Event(session, "meeting.status", st, <<>>) : st \in Statuses}

\* `${platform}/${nativeId}` of the meeting the session was opened for
RECURSIVE JoinParts(_)
JoinParts(parts) ==
    IF Len(parts) = 1 THEN parts[1] ELSE parts[1] \o "/" \o JoinParts(Tail(parts))

InternalIdOf(m) ==
    LET platform == IF m[1] # "" THEN m[1] ELSE "google_meet"
        nativeId == IF Len(m) >= 2 /\ m[2] # "" THEN m[2] ELSE JoinParts(m)
    IN  platform \o "/" \o nativeId

\* transcription-service: startWebSocketTranscription opens a session for the meeting
startWebSocketTranscription(subs, m, n) ==
    subs \cup {[meeting |-> InternalIdOf(m), n |-> n]}

\* transcription-service: stopWebSocketTranscription closes the sessions of the meeting;
\* what was already sent stays in flight
stopWebSocketTranscription(subs, id) ==
    {s \in subs : s.meeting # id}

\* the service sends an event on a live session
TransportSend(s, e) ==
    /\ s \in subscriptions
    /\ e \in EventsOf(s)
    /\ Cardinality(inflight) < MaxInflight
    /\ inflight' = inflight \cup {e}
    /\ UNCHANGED <<segments, hist, meetingId, isLive, meetingStatus, error,
                   isWebSocketConnected, internalMeetingId, cleanupArmed, subscriptions, started>>
    /\ UNCHANGED hookFrame

\* the start/stop effect: cleanup of the previous run, then the run for the new arguments
RunEffect(m, live) ==
    /\ <<m, live>> # <<meetingId, isLive>>
    /\ started < MaxSessions
    /\ meetingId' = m
    /\ isLive' = live
    /\ LET afterCleanup ==
               IF cleanupArmed /\ internalMeetingId # NoInternalId
               THEN stopWebSocketTranscription(subscriptions, internalMeetingId)
               ELSE subscriptions
           afterStop ==
               IF internalMeetingId # NoInternalId
               THEN stopWebSocketTranscription(afterCleanup, internalMeetingId)
               ELSE afterCleanup
       IN  IF m = NoMeeting \/ ~live
           THEN /\ subscriptions' = afterCleanup
                /\ cleanupArmed' = FALSE
                /\ UNCHANGED <<segments, meetingStatus, error, isWebSocketConnected,
                               internalMeetingId, started>>
           ELSE /\ segments' = <<>>
                /\ error' = NoError
                /\ isWebSocketConnected' = FALSE
                /\ meetingStatus' = "connecting"
                /\ subscriptions' = startWebSocketTranscription(afterStop, m, started + 1)
                /\ started' = started + 1
                /\ internalMeetingId' = InternalIdOf(m)
                /\ cleanupArmed' = TRUE
    /\ UNCHANGED <<hist, inflight>>
    /\ UNCHANGED hookFrame

OnTranscriptMutable(e) ==
    /\ e \in inflight
    /\ e.kind = "transcript.mutable"
    /\ handleWebSocketTranscriptMutable(e.segments)
    /\ inflight' = inflight \ {e}
    /\ UNCHANGED <<meetingId, isLive, meetingStatus, error, isWebSocketConnected,
                   internalMeetingId, cleanupArmed, subscriptions, started>>
    /\ UNCHANGED hookFrame

OnTranscriptFinalized(e) ==
    /\ e \in inflight
    /\ e.kind = "transcript.finalized"
    /\ handleWebSocketTranscriptFinalized(e.segments)
    /\ inflight' = inflight \ {e}
    /\ UNCHANGED <<meetingId, isLive, meetingStatus, error, isWebSocketConnected,
                   internalMeetingId, cleanupArmed, subscriptions, started>>
    /\ UNCHANGED hookFrame

handleWebSocketMeetingStatus(e) ==
    /\ e \in inflight
    /\ e.kind = "meeting.status"
    /\ inflight' = inflight \ {e}
    /\ meetingStatus' = e.status
    /\ IF e.status \in {"completed", "failed", "error"} /\ internalMeetingId # NoInternalId
       THEN /\ subscriptions' = stopWebSocketTranscription(subscriptions, internalMeetingId)
            /\ isWebSocketConnected' = FALSE
       ELSE UNCHANGED <<subscriptions, isWebSocketConnected>>
    /\ UNCHANGED <<segments, hist, meetingId, isLive, error, internalMeetingId, cleanupArmed, started>>
    /\ UNCHANGED hookFrame

handleWebSocketError(e) ==
    /\ e \in inflight
    /\ e.kind = "error"
    /\ inflight' = inflight \ {e}
    /\ error' = "err"
    /\ isWebSocketConnected' = FALSE
    /\ UNCHANGED <<segments, hist, meetingId, isLive, meetingStatus, internalMeetingId,
                   cleanupArmed, subscriptions, started>>
    /\ UNCHANGED hookFrame

handleWebSocketConnected(e) ==
    /\ e \in inflight
    /\ e.kind = "connected"
    /\ inflight' = inflight \ {e}
    /\ isWebSocketConnected' = TRUE
    /\ error' = NoError
    /\ meetingStatus' = "connected"
    /\ UNCHANGED <<segments, hist, meetingId, isLive, internalMeetingId, cleanupArmed,
                   subscriptions, started>>
    /\ UNCHANGED hookFrame

handleWebSocketDisconnected(e) ==
    /\ e \in inflight
    /\ e.kind = "disconnected"
    /\ inflight' = inflight \ {e}
    /\ isWebSocketConnected' = FALSE
    /\ UNCHANGED <<segments, hist, meetingId, isLive, meetingStatus, error, internalMeetingId,
                   cleanupArmed, subscriptions, started>>
    /\ UNCHANGED hookFrame

HookInit ==
    /\ segments = <<>>
    /\ hist = <<>>
    /\ \E live \in BOOLEAN : HookInitFor(live)
    /\ AppInit
    /\ DraftIdle
    /\ SseInit
    /\ ChunkIdle
    /\ GrouperIdle
    /\ AgentIdle

HookNext ==
    \/ \E m \in Meetings \cup {NoMeeting}, live \in BOOLEAN : RunEffect(m, live)
    \/ \E s \in subscriptions : \E e \in EventsOf(s) : TransportSend(s, e)
    \/ \E e \in inflight : OnTranscriptMutable(e)
    \/ \E e \in inflight : OnTranscriptFinalized(e)
    \/ \E e \in inflight : handleWebSocketMeetingStatus(e)
    \/ \E e \in inflight : handleWebSocketError(e)
    \/ \E e \in inflight : handleWebSocketConnected(e)
    \/ \E e \in inflight : handleWebSocketDisconnected(e)

SpecHook == HookInit /\ [][HookNext]_vars

----------------------------------------------------------------------------
(* frontend/src/main.jsx: App (manual transcript polling, pin/focus)       *)
(*                                                                         *)
(* A function of App reads the state of the render that created it.  The   *)
(* callback of a setInterval and the code after an await keep the values   *)
(* of the render in which the timer was set or the request was sent; refs  *)
(* and functional updaters read the live values.                           *)

MaxFetches == 2         \* GET /transcripts requests sent in one behaviour
MaxStatusPolls == 2     \* GET /bot-status requests sent in one behaviour
NumRows == 2            \* rows of an uploaded playlist

MeetIds == {"m1"}

\* data.status of GET /bot-status; "" when the reply carries none
BotStatuses == {"active", "test-mode-running", "completed", "joining", "failed", ""}

\* the reply of GET /transcripts: [{speaker, start, text}]
TranscriptReplies ==
    {<<>>, <<[speaker |-> "A", text |-> "t1"]>>, <<[speaker |-> NoSpeaker, text |-> "t2"]>>}

\* a POST reply: data.status "success", another reply, or a rejected fetch
ReplyOutcomes == {"success", "error", "network"}

RowIndexes == 0..(NumRows - 1)

RowCount(r) == Cardinality(DOMAIN r)

\* the speaker of the last line that starts with "<name>:" (lines.length - 1 down to 0)
RECURSIVE LastSpeakerOf(_, _)
LastSpeakerOf(lines, i) ==
    IF i < 1 THEN NoSpeaker
    ELSE IF lines[i].speaker # NoSpeaker THEN lines[i].speaker
    ELSE LastSpeakerOf(lines, i - 1)

\* transcriptArray.forEach of the setRows updater: st = [lines, lastSpeaker]
MergeSegment(st, seg) ==
    IF seg.text = "" THEN st
    ELSE IF seg.speaker # NoSpeaker
         THEN IF seg.speaker = st.lastSpeaker /\ Len(st.lines) > 0
              THEN [st EXCEPT !.lines[Len(st.lines)].words = Append(@, seg.text)]
              ELSE [lines |-> Append(st.lines, [speaker |-> seg.speaker, words |-> <<seg.text>>]),
                    lastSpeaker |-> seg.speaker]
         ELSE [lines |-> Append(st.lines, [speaker |-> NoSpeaker, words |-> <<seg.text>>]),
               lastSpeaker |-> NoSpeaker]

RECURSIVE MergeAll(_, _)
MergeAll(st, transcriptArray) ==
    IF transcriptArray = <<>> THEN st
    ELSE MergeAll(MergeSegment(st, Head(transcriptArray)), Tail(transcriptArray))

MergeTranscript(lines, transcriptArray) ==
    MergeAll([lines |-> lines, lastSpeaker |-> LastSpeakerOf(lines, Len(lines))],
             transcriptArray).lines

\* let activeIndex = pinnedIndex !== null ? pinnedIndex : currentIndexRef.current, clamped
RouteIndex(pinned, current, count) ==
    LET activeIndex == IF pinned # Null THEN pinned ELSE current
    IN  IF activeIndex < 0 \/ activeIndex >= count THEN 0 ELSE activeIndex

\* uploadFile, reply ok: setRows(mapped); setCurrentIndex(0)
uploadFile ==
    /\ rows' = [i \in RowIndexes |-> <<>>]
    /\ currentIndex' = 0
    /\ UNCHANGED <<pinnedIndex, unpinned, isPollingTranscripts, manualTranscriptPolling,
                   joinedMeetId, meetId, botIsActive, waitingForActive, submitting, status,
                   lastSegmentIndex, pollingInterval, intervals, botStatusInterval, submitInflight,
                   statusInflight, transcriptInflight, exitInflight, issued>>

\* onFocus of a row's textarea
FocusRow(idx) ==
    /\ idx \in DOMAIN rows
    /\ pinnedIndex = Null
    /\ currentIndex' = idx
    /\ UNCHANGED <<rows, pinnedIndex, unpinned, isPollingTranscripts, manualTranscriptPolling,
                   joinedMeetId, meetId, botIsActive, waitingForActive, submitting, status,
                   lastSegmentIndex, pollingInterval, intervals, botStatusInterval, submitInflight,
                   statusInflight, transcriptInflight, exitInflight, issued>>

\* onClick of a row's pin button: setPinnedIndex(isPinned ? null : idx)
PinToggle(idx) ==
    /\ idx \in DOMAIN rows
    /\ pinnedIndex' = (IF pinnedIndex = idx THEN Null ELSE idx)
    /\ unpinned' = (pinnedIndex = idx)
    /\ UNCHANGED <<rows, currentIndex, isPollingTranscripts, manualTranscriptPolling,
                   joinedMeetId, meetId, botIsActive, waitingForActive, submitting, status,
                   lastSegmentIndex, pollingInterval, intervals, botStatusInterval, submitInflight,
                   statusInflight, transcriptInflight, exitInflight, issued>>

\* onChange of the Meet ID input (disabled while the bot is active)
TypeMeetId(m) ==
    /\ ~botIsActive
    /\ meetId # m
    /\ meetId' = m
    /\ UNCHANGED <<rows, currentIndex, pinnedIndex, unpinned, isPollingTranscripts,
                   manualTranscriptPolling, joinedMeetId, botIsActive, waitingForActive,
                   submitting, status, lastSegmentIndex, pollingInterval, intervals, botStatusInterval,
                   submitInflight, statusInflight, transcriptInflight, exitInflight, issued>>

\* handleSubmit up to its await: the Join button is shown and enabled
handleSubmit ==
    /\ ~botIsActive /\ ~submitting /\ ~waitingForActive
    /\ meetId # ""
    /\ submitting' = TRUE
    /\ waitingForActive' = TRUE
    /\ status' = "Submitting meet id..."
    \* stopTranscriptPolling()
    /\ intervals' = [intervals EXCEPT !.transcript = clearInterval(@, pollingInterval)]
    /\ pollingInterval' = NoPollTimer
    /\ isPollingTranscripts' = FALSE
    /\ lastSegmentIndex' = -1
    /\ submitInflight' = submitInflight \cup
           {[meeting |-> meetId, isPolling |-> isPollingTranscripts, waiting |-> waitingForActive]}
    /\ UNCHANGED <<rows, currentIndex, pinnedIndex, unpinned, manualTranscriptPolling,
                   joinedMeetId, meetId, botIsActive, botStatusInterval, statusInflight,
                   transcriptInflight, exitInflight, issued>>

\* handleSubmit after its await: the reply of POST /submit-meet-id
SubmitReply(req, outcome) ==
    /\ req \in submitInflight
    /\ submitInflight' = submitInflight \ {req}
    /\ submitting' = FALSE
    /\ IF outcome = "success"
       THEN /\ issued.status < MaxStatusPolls
            /\ status' = "Requested to join meeting: " \o req.meeting
            /\ joinedMeetId' = req.meeting
            /\ LET cleared == clearInterval(intervals.status, botStatusInterval)
                   timer == [live |-> TRUE, meeting |-> req.meeting,
                             isPolling |-> req.isPolling, waiting |-> req.waiting,
                             handle |-> NewHandle(cleared)]
               IN  /\ botStatusInterval' = timer
                   /\ intervals' = [intervals EXCEPT !.status = cleared \cup {timer}]
            \* the initial pollBotStatus(meetId.trim())
            /\ statusInflight' = statusInflight \cup
                   {[id |-> issued.status + 1, meeting |-> req.meeting,
                     isPolling |-> req.isPolling, waiting |-> req.waiting]}
            /\ issued' = [issued EXCEPT !.status = @ + 1]
            /\ UNCHANGED waitingForActive
       ELSE /\ status' = (IF outcome = "error" THEN "Server returned an error"
                          ELSE "Network error while sending Meet ID")
            /\ waitingForActive' = FALSE
            /\ UNCHANGED <<joinedMeetId, botStatusInterval, intervals, statusInflight, issued>>
    /\ UNCHANGED <<rows, currentIndex, pinnedIndex, unpinned, isPollingTranscripts,
                   manualTranscriptPolling, meetId, botIsActive, lastSegmentIndex,
                   pollingInterval, transcriptInflight, exitInflight>>

\* the bot-status interval fires: pollBotStatus up to its fetch
BotStatusTick ==
    /\ issued.status < MaxStatusPolls
    /\ \E t \in intervals.status :
           statusInflight' = statusInflight \cup
               {[id |-> issued.status + 1, meeting |-> t.meeting,
                 isPolling |-> t.isPolling, waiting |-> t.waiting]}
    /\ issued' = [issued EXCEPT !.status = @ + 1]
    /\ UNCHANGED <<rows, currentIndex, pinnedIndex, unpinned, isPollingTranscripts,
                   manualTranscriptPolling, joinedMeetId, meetId, botIsActive, waitingForActive,
                   submitting, status, lastSegmentIndex, pollingInterval, botStatusInterval,
                   intervals,
                   submitInflight, transcriptInflight, exitInflight>>

IsActiveStatus(st) == st = "active" \/ st = "test-mode-running"

\* pollBotStatus after its fetch: the reply carries data.status = st ("" for none)
pollBotStatus(req, st) ==
    /\ req \in statusInflight
    /\ statusInflight' = statusInflight \ {req}
    /\ IF st # ""
       THEN /\ status' = "Bot Status: " \o st
            /\ waitingForActive' = (IF req.waiting /\ IsActiveStatus(st) THEN FALSE ELSE waitingForActive)
            /\ IF st = "completed" /\ req.isPolling
               THEN \* stopTranscriptPolling(); setBotIsActive(false); setManualTranscriptPolling(false)
                    /\ intervals' =
                           [intervals EXCEPT !.transcript = clearInterval(@, pollingInterval)]
                    /\ pollingInterval' = NoPollTimer
                    /\ isPollingTranscripts' = FALSE
                    /\ lastSegmentIndex' = -1
                    /\ botIsActive' = FALSE
                    /\ manualTranscriptPolling' = FALSE
               ELSE /\ botIsActive' = IsActiveStatus(st)
                    /\ UNCHANGED <<pollingInterval, intervals, isPollingTranscripts, lastSegmentIndex,
                                   manualTranscriptPolling>>
       ELSE /\ status' = "Bot Status: unknown"
            /\ botIsActive' = FALSE
            /\ UNCHANGED <<waitingForActive, pollingInterval, intervals, isPollingTranscripts,
                           lastSegmentIndex, manualTranscriptPolling>>
    /\ UNCHANGED <<rows, currentIndex, pinnedIndex, unpinned, joinedMeetId, meetId, submitting,
                   botStatusInterval, submitInflight, transcriptInflight, exitInflight, issued>>

\* pollBotStatus: the fetch rejects
pollBotStatusFailed(req) ==
    /\ req \in statusInflight
    /\ statusInflight' = statusInflight \ {req}
    /\ status' = "Bot Status: error"
    /\ botIsActive' = FALSE
    /\ UNCHANGED <<rows, currentIndex, pinnedIndex, unpinned, isPollingTranscripts,
                   manualTranscriptPolling, joinedMeetId, meetId, waitingForActive, submitting,
                   lastSegmentIndex, pollingInterval, intervals, botStatusInterval, submitInflight,
                   transcriptInflight, exitInflight, issued>>

\* onClick of "Get Transcripts" / "Pause Transcripts" (shown while the bot is active)
handleTranscriptPollingToggle ==
    /\ botIsActive
    /\ joinedMeetId # ""
    /\ IF isPollingTranscripts
       THEN /\ intervals' = [intervals EXCEPT !.transcript = clearInterval(@, pollingInterval)]
            /\ pollingInterval' = NoPollTimer
            /\ isPollingTranscripts' = FALSE
            /\ manualTranscriptPolling' = FALSE
            /\ UNCHANGED <<botStatusInterval, lastSegmentIndex>>
       ELSE \* startTranscriptPolling(joinedMeetId); setManualTranscriptPolling(true)
            /\ botStatusInterval' = NoStatusTimer
            /\ isPollingTranscripts' = TRUE
            /\ lastSegmentIndex' = -1
            /\ LET cleared == clearInterval(intervals.transcript, pollingInterval)
                   timer == [live |-> TRUE, meeting |-> joinedMeetId, pinned |-> pinnedIndex,
                             nrows |-> RowCount(rows), handle |-> NewHandle(cleared)]
               IN  /\ pollingInterval' = timer
                   /\ intervals' = [transcript |-> cleared \cup {timer},
                                    status |-> clearInterval(intervals.status, botStatusInterval)]
            /\ manualTranscriptPolling' = TRUE
    /\ UNCHANGED <<rows, currentIndex, pinnedIndex, unpinned, joinedMeetId, meetId, botIsActive,
                   waitingForActive, submitting, status, submitInflight, statusInflight,
                   transcriptInflight, exitInflight, issued>>

\* the transcript interval fires: fetchTranscripts up to its fetch
TranscriptTick ==
    /\ issued.transcript < MaxFetches
    /\ \E t \in intervals.transcript :
           transcriptInflight' = transcriptInflight \cup
               {[id |-> issued.transcript + 1, meeting |-> t.meeting,
                 cursor |-> lastSegmentIndex, pinned |-> t.pinned, nrows |-> t.nrows]}
    /\ issued' = [issued EXCEPT !.transcript = @ + 1]
    /\ UNCHANGED <<rows, currentIndex, pinnedIndex, unpinned, isPollingTranscripts,
                   manualTranscriptPolling, joinedMeetId, meetId, botIsActive, waitingForActive,
                   submitting, status, lastSegmentIndex, pollingInterval, botStatusInterval,
                   intervals,
                   submitInflight, statusInflight, exitInflight>>

\* fetchTranscripts after its fetch: the reply is transcriptArray
fetchTranscripts(req, transcriptArray) ==
    /\ req \in transcriptInflight
    /\ transcriptInflight' = transcriptInflight \ {req}
    /\ IF Len(transcriptArray) = 0
       THEN UNCHANGED <<lastSegmentIndex, rows>>
       ELSE /\ lastSegmentIndex' = req.cursor + Len(transcriptArray)
            /\ IF req.nrows > 0
               THEN LET activeIndex == RouteIndex(req.pinned, currentIndex, RowCount(rows))
                    IN  rows' = [rows EXCEPT ![activeIndex] = MergeTranscript(@, transcriptArray)]
               ELSE UNCHANGED rows
    /\ UNCHANGED <<currentIndex, pinnedIndex, unpinned, isPollingTranscripts,
                   manualTranscriptPolling, joinedMeetId, meetId, botIsActive, waitingForActive,
                   submitting, status, pollingInterval, intervals, botStatusInterval, submitInflight,
                   statusInflight, exitInflight, issued>>

\* fetchTranscripts: the fetch rejects or the reply is not ok
fetchTranscriptsFailed(req) ==
    /\ req \in transcriptInflight
    /\ transcriptInflight' = transcriptInflight \ {req}
    /\ UNCHANGED <<rows, currentIndex, pinnedIndex, unpinned, isPollingTranscripts,
                   manualTranscriptPolling, joinedMeetId, meetId, botIsActive, waitingForActive,
                   submitting, status, lastSegmentIndex, pollingInterval, intervals, botStatusInterval,
                   submitInflight, statusInflight, exitInflight, issued>>

\* handleExitBot up to its await: the Exit button is shown and enabled
handleExitBot ==
    /\ botIsActive /\ ~submitting
    /\ submitting' = TRUE
    /\ status' = "Exiting bot..."
    /\ exitInflight' = exitInflight \cup {[meeting |-> joinedMeetId]}
    /\ UNCHANGED <<rows, currentIndex, pinnedIndex, unpinned, isPollingTranscripts,
                   manualTranscriptPolling, joinedMeetId, meetId, botIsActive, waitingForActive,
                   lastSegmentIndex, pollingInterval, intervals, botStatusInterval, submitInflight,
                   statusInflight, transcriptInflight, issued>>

\* handleExitBot after its await: the reply of POST /stop-bot
ExitReply(req, outcome) ==
    /\ req \in exitInflight
    /\ exitInflight' = exitInflight \ {req}
    /\ submitting' = FALSE
    /\ IF outcome = "success"
       THEN /\ status' = "Bot exited successfully."
            /\ botIsActive' = FALSE
            /\ joinedMeetId' = ""
            /\ meetId' = ""
            /\ manualTranscriptPolling' = FALSE
            \* stopTranscriptPolling()
            /\ intervals' = [intervals EXCEPT !.transcript = clearInterval(@, pollingInterval)]
            /\ pollingInterval' = NoPollTimer
            /\ isPollingTranscripts' = FALSE
            /\ lastSegmentIndex' = -1
       ELSE /\ status' = (IF outcome = "error" THEN "Failed to exit bot."
                          ELSE "Network error while exiting bot")
            /\ UNCHANGED <<botIsActive, joinedMeetId, meetId, manualTranscriptPolling,
                           pollingInterval, intervals, isPollingTranscripts, lastSegmentIndex>>
    /\ UNCHANGED <<rows, currentIndex, pinnedIndex, unpinned, waitingForActive,
                   botStatusInterval, submitInflight, statusInflight, transcriptInflight, issued>>

AppInitAll ==
    /\ segments = <<>>
    /\ hist = <<>>
    /\ HookInitFor(FALSE)
    /\ AppInit
    /\ DraftIdle
    /\ SseInit
    /\ ChunkIdle
    /\ GrouperIdle
    /\ AgentIdle

AppNext ==
    \/ uploadFile /\ UNCHANGED appFrame
    \/ \E idx \in RowIndexes : FocusRow(idx) /\ UNCHANGED appFrame
    \/ \E idx \in RowIndexes : PinToggle(idx) /\ UNCHANGED appFrame
    \/ \E m \in MeetIds : TypeMeetId(m) /\ UNCHANGED appFrame
    \/ handleSubmit /\ UNCHANGED appFrame
    \/ \E req \in submitInflight, outcome \in ReplyOutcomes :
           SubmitReply(req, outcome) /\ UNCHANGED appFrame
    \/ BotStatusTick /\ UNCHANGED appFrame
    \/ \E req \in statusInflight, st \in BotStatuses :
           pollBotStatus(req, st) /\ UNCHANGED appFrame
    \/ \E req \in statusInflight : pollBotStatusFailed(req) /\ UNCHANGED appFrame
    \/ handleTranscriptPollingToggle /\ UNCHANGED appFrame
    \/ TranscriptTick /\ UNCHANGED appFrame
    \/ \E req \in transcriptInflight, reply \in TranscriptReplies :
           fetchTranscripts(req, reply) /\ UNCHANGED appFrame
    \/ \E req \in transcriptInflight :
           fetchTranscriptsFailed(req) /\ UNCHANGED appFrame
    \/ handleExitBot /\ UNCHANGED appFrame
    \/ \E req \in exitInflight, outcome \in ReplyOutcomes :
           ExitReply(req, outcome) /\ UNCHANGED appFrame

SpecApp == AppInitAll /\ [][AppNext]_vars

\* the cleanup of the mount effect: App is unmounted; both refs keep their ids
Unmount ==
    /\ mounted
    /\ mounted' = FALSE
    /\ intervals' = [transcript |-> clearInterval(intervals.transcript, pollingInterval),
                     status |-> clearInterval(intervals.status, botStatusInterval)]
    /\ UNCHANGED <<rows, currentIndex, pinnedIndex, unpinned, isPollingTranscripts,
                   manualTranscriptPolling, joinedMeetId, meetId, botIsActive, waitingForActive,
                   submitting, status, lastSegmentIndex, pollingInterval, botStatusInterval,
                   submitInflight, statusInflight, transcriptInflight, exitInflight, issued>>
    /\ UNCHANGED <<storeVars, hookVars, sseVars, chunkVars, grouperVars, agentVars, sessionVars,
                   draftVars>>

\* the join, polling and exit handlers of App over its whole life: the buttons work
\* while App is mounted; the timers that are still live and the replies of the
\* requests already sent arrive after the unmount as well
TimersNext ==
    \/ \E m \in MeetIds : mounted /\ TypeMeetId(m) /\ UNCHANGED appFrame
    \/ mounted /\ handleSubmit /\ UNCHANGED appFrame
    \/ \E req \in submitInflight, outcome \in ReplyOutcomes :
           SubmitReply(req, outcome) /\ UNCHANGED appFrame
    \/ BotStatusTick /\ UNCHANGED appFrame
    \/ \E req \in statusInflight, st \in BotStatuses :
           pollBotStatus(req, st) /\ UNCHANGED appFrame
    \/ \E req \in statusInflight : pollBotStatusFailed(req) /\ UNCHANGED appFrame
    \/ mounted /\ handleTranscriptPollingToggle /\ UNCHANGED appFrame
    \/ TranscriptTick /\ UNCHANGED appFrame
    \/ \E req \in transcriptInflight, reply \in TranscriptReplies :
           fetchTranscripts(req, reply) /\ UNCHANGED appFrame
    \/ \E req \in transcriptInflight :
           fetchTranscriptsFailed(req) /\ UNCHANGED appFrame
    \/ mounted /\ handleExitBot /\ UNCHANGED appFrame
    \/ \E req \in exitInflight, outcome \in ReplyOutcomes :
           ExitReply(req, outcome) /\ UNCHANGED appFrame
    \/ Unmount

SpecTimers == AppInitAll /\ [][TimersNext]_vars

----------------------------------------------------------------------------
(* frontend/src/main.jsx: App with webhook events (join starts polling     *)
(* and opens an EventSource; its onerror sets a 5 s reconnect timeout)     *)

MaxConnections == 3     \* EventSource objects created in one behaviour
MaxTimeouts == 2        \* reconnect timeouts set in one behaviour

\* the state of App that the webhook-events variant does not have or never sets
sseUnused == <<rows, currentIndex, pinnedIndex, unpinned, manualTranscriptPolling, botIsActive,
               waitingForActive, botStatusInterval, statusInflight, transcriptInflight,
               exitInflight, issued>>

\* eventSourceRef.current.close()
CloseCurrent(sources, ref) == {es \in sources : es.id # ref}

\* connectToWebhookEvents, called from a render whose isPollingTranscripts is isPolling:
\* the EventSource set after it, and the id of the new one
connectToWebhookEvents(sources, ref, n, isPolling) ==
    CloseCurrent(sources, ref) \cup {[id |-> n, isPolling |-> isPolling]}

\* onChange of the Meet ID input
setMeetId(m) ==
    /\ meetId # m
    /\ meetId' = m
    /\ UNCHANGED <<isPollingTranscripts, joinedMeetId, submitting, status, lastSegmentIndex,
                   pollingInterval, intervals, submitInflight>>
    /\ UNCHANGED <<sseUnused, sseVars, sseFrame>>

\* stopTranscriptPolling with disconnectFromWebhookEvents: the Stop Polling button
stopTranscriptPolling ==
    /\ isPollingTranscripts
    /\ intervals' = [intervals EXCEPT !.transcript = clearInterval(@, pollingInterval)]
    /\ pollingInterval' = NoPollTimer
    /\ isPollingTranscripts' = FALSE
    /\ joinedMeetId' = ""
    /\ lastSegmentIndex' = -1
    /\ eventSources' = CloseCurrent(eventSources, eventSourceRef)
    /\ eventSourceRef' = 0
    /\ botStatus' = ""
    /\ UNCHANGED <<meetId, submitting, status, submitInflight, reconnectTimers, opened, scheduled>>
    /\ UNCHANGED <<sseUnused, sseFrame>>

\* handleSubmit of the webhook-events variant, up to its await
SubmitWithEvents ==
    /\ meetId # "" /\ ~submitting
    /\ submitting' = TRUE
    /\ status' = "Submitting meet id..."
    \* stopTranscriptPolling()
    /\ intervals' = [intervals EXCEPT !.transcript = clearInterval(@, pollingInterval)]
    /\ pollingInterval' = NoPollTimer
    /\ isPollingTranscripts' = FALSE
    /\ joinedMeetId' = ""
    /\ lastSegmentIndex' = -1
    /\ eventSources' = CloseCurrent(eventSources, eventSourceRef)
    /\ eventSourceRef' = 0
    /\ botStatus' = ""
    /\ submitInflight' = submitInflight \cup
           {[meeting |-> meetId, isPolling |-> isPollingTranscripts]}
    /\ UNCHANGED <<meetId, reconnectTimers, opened, scheduled>>
    /\ UNCHANGED <<sseUnused, sseFrame>>

\* handleSubmit of the webhook-events variant, after its await
SubmitWithEventsReply(req, outcome) ==
    /\ req \in submitInflight
    /\ submitInflight' = submitInflight \ {req}
    /\ submitting' = FALSE
    /\ IF outcome = "success"
       THEN /\ opened < MaxConnections
            /\ status' = "Successfully joined meeting: " \o req.meeting
            \* startTranscriptPolling(meetId.trim())
            /\ isPollingTranscripts' = TRUE
            /\ joinedMeetId' = req.meeting
            /\ lastSegmentIndex' = -1
            /\ eventSources' =
                   connectToWebhookEvents(eventSources, eventSourceRef, opened + 1, req.isPolling)
            /\ eventSourceRef' = opened + 1
            /\ opened' = opened + 1
            /\ LET cleared == clearInterval(intervals.transcript, pollingInterval)
                   timer == [live |-> TRUE, meeting |-> req.meeting, pinned |-> Null,
                             nrows |-> RowCount(rows), handle |-> NewHandle(cleared)]
               IN  /\ pollingInterval' = timer
                   /\ intervals' = [intervals EXCEPT !.transcript = cleared \cup {timer}]
            /\ UNCHANGED botStatus
       ELSE /\ status' = (IF outcome = "error" THEN "Server returned an error"
                          ELSE "Network error while sending Meet ID")
            /\ UNCHANGED <<isPollingTranscripts, joinedMeetId, lastSegmentIndex, eventSources,
                           eventSourceRef, opened, pollingInterval, intervals,
                           botStatus>>
    /\ UNCHANGED <<meetId, reconnectTimers, scheduled>>
    /\ UNCHANGED <<sseUnused, sseFrame>>

\* eventSource.onerror: the connection of an EventSource that was not closed is lost;
\* the browser either keeps the object retrying or fails the connection (readyState CLOSED)
EventSourceError(es, failed) ==
    /\ es \in eventSources
    /\ scheduled < MaxTimeouts
    /\ botStatus' = "Webhook connection lost"
    /\ reconnectTimers' = reconnectTimers \cup {[n |-> scheduled + 1, isPolling |-> es.isPolling]}
    /\ scheduled' = scheduled + 1
    /\ eventSources' = (IF failed THEN eventSources \ {es} ELSE eventSources)
    /\ UNCHANGED <<eventSourceRef, opened>>
    /\ UNCHANGED <<isPollingTranscripts, joinedMeetId, meetId, submitting, status,
                   lastSegmentIndex, pollingInterval, intervals, submitInflight>>
    /\ UNCHANGED <<sseUnused, sseFrame>>

\* the setTimeout callback of onerror, 5 s later
ReconnectTimeout(t) ==
    /\ t \in reconnectTimers
    /\ reconnectTimers' = reconnectTimers \ {t}
    /\ IF t.isPolling
       THEN /\ opened < MaxConnections
            /\ eventSources' =
                   connectToWebhookEvents(eventSources, eventSourceRef, opened + 1, t.isPolling)
            /\ eventSourceRef' = opened + 1
            /\ opened' = opened + 1
       ELSE UNCHANGED <<eventSources, eventSourceRef, opened>>
    /\ UNCHANGED <<botStatus, scheduled>>
    /\ UNCHANGED <<isPollingTranscripts, joinedMeetId, meetId, submitting, status,
                   lastSegmentIndex, pollingInterval, intervals, submitInflight>>
    /\ UNCHANGED <<sseUnused, sseFrame>>

SseInitAll ==
    /\ segments = <<>>
    /\ hist = <<>>
    /\ HookInitFor(FALSE)
    /\ AppInit
    /\ DraftIdle
    /\ SseInit
    /\ ChunkIdle
    /\ GrouperIdle
    /\ AgentIdle

SseNext ==
    \/ \E m \in MeetIds : setMeetId(m)
    \/ stopTranscriptPolling
    \/ SubmitWithEvents
    \/ \E req \in submitInflight, outcome \in ReplyOutcomes : SubmitWithEventsReply(req, outcome)
    \/ \E es \in eventSources, failed \in BOOLEAN : EventSourceError(es, failed)
    \/ \E t \in reconnectTimers : ReconnectTimeout(t)

SpecSse == SseInitAll /\ [][SseNext]_vars

----------------------------------------------------------------------------
(* lib/transcription-display.tsx: splitTextIntoSentenceChunks as a call    *)

MaxTextLen == 5         \* characters of the text argument
MaxLimit == 4           \* largest maxLen argument

Chars == {"a", ".", "!", WS}

RECURSIVE TextsUpTo(_)
TextsUpTo(n) ==
    IF n = 0 THEN {<<>>}
    ELSE LET shorter == TextsUpTo(n - 1)
         IN  shorter \cup {Append(t, c) : t \in {u \in shorter : Len(u) = n - 1}, c \in Chars}

Texts == TextsUpTo(MaxTextLen)

Limits == 0..MaxLimit

ChunkInit ==
    /\ inputText \in Texts
    /\ inputMaxLen \in Limits
    /\ outputChunks = <<>>
    /\ returned = FALSE
    /\ segments = <<>>
    /\ hist = <<>>
    /\ HookInitFor(FALSE)
    /\ AppInit
    /\ DraftIdle
    /\ SseInit
    /\ GrouperIdle
    /\ AgentIdle

\* the call returns
ChunkCall ==
    /\ ~returned
    /\ outputChunks' = splitTextIntoSentenceChunks(inputText, inputMaxLen)
    /\ returned' = TRUE
    /\ UNCHANGED <<inputText, inputMaxLen>>
    /\ UNCHANGED chunkFrame

ChunkNext == ChunkCall

SpecChunk == ChunkInit /\ [][ChunkNext]_vars

----------------------------------------------------------------------------
(* lib/transcription-display.tsx: groupSegmentsBySpeaker as a call         *)

MaxGrouperInput == 3    \* segments of the segments argument
LongLen == 300          \* characters of the long sentence

\* one sentence of LongLen characters: two of them do not fit in MAX_CHARS
LongSentence == [i \in 1..LongLen |-> IF i = LongLen THEN "." ELSE "a"]

\* two instants; a segment can also come without absolute times
GrouperTimes == {<<1, 0>>, <<2, 0>>}

GrouperPayloads == {[text |-> <<" ", "h", " ", " ", "i", " ">>, speaker |-> "A"],
                    [text |-> <<"o", "k">>, speaker |-> "B"],
                    [text |-> <<" ", " ">>, speaker |-> "B"],
                    [text |-> <<"n", "o">>, speaker |-> NoSpeaker],
                    [text |-> LongSentence, speaker |-> "A"]}

GrouperSegments ==
    {Seg(k, NoUpd, p.text, p.speaker) : k \in GrouperTimes, p \in GrouperPayloads}
        \cup {Seg(NoTime, NoUpd, <<"o", "k">>, "B")}

RECURSIVE SegmentListsUpTo(_)
SegmentListsUpTo(n) ==
    IF n = 0 THEN {<<>>}
    ELSE LET shorter == SegmentListsUpTo(n - 1)
         IN  shorter \cup {Append(l, g) : l \in {u \in shorter : Len(u) = n - 1},
                                          g \in GrouperSegments}

GrouperInit ==
    /\ grouperInput \in SegmentListsUpTo(MaxGrouperInput)
    /\ grouperGroups = <<>>
    /\ grouperSplitGroups = <<>>
    /\ grouperReturned = FALSE
    /\ segments = <<>>
    /\ hist = <<>>
    /\ HookInitFor(FALSE)
    /\ AppInit
    /\ DraftIdle
    /\ SseInit
    /\ ChunkIdle
    /\ AgentIdle

\* the call returns; `groups` is what the grouping loop left for the chunk split
GrouperCall ==
    /\ ~grouperReturned
    /\ grouperGroups' = IF Len(grouperInput) = 0 THEN <<>>
                        ELSE GroupAll(<<>>, SortForGroup(grouperInput))
    /\ grouperSplitGroups' = groupSegmentsBySpeaker(grouperInput)
    /\ grouperReturned' = TRUE
    /\ UNCHANGED grouperInput
    /\ UNCHANGED grouperFrame

GrouperNext == GrouperCall

SpecGrouper == GrouperInit /\ [][GrouperNext]_vars

----------------------------------------------------------------------------
(* dna-frontend-framework: StateManager and VexaTranscriptionAgent, next   *)
(* to the transcript handlers of useTranscriptionWebSocket                 *)

MaxIngest == 3          \* deliveries and setVersion calls in one behaviour

VersionIds == {1, 2}

\* an object is a set of <<key, value>> pairs; an optional argument is <<>> or <<value>>
NoContext == <<>>

ContextArgs == {NoContext, <<{<<"name", "n1">>}>>, <<{<<"shot", "s1">>}>>}

\* { ...a, ...b }
Spread(a, b) == {p \in a : \A q \in b : q[1] # p[1]} \cup b

\* state.versions.find(v => v.id === id.toString()): its index, 0 when undefined
getVersion(vs, id) ==
    IF \E i \in 1..Len(vs) : vs[i].id = ToString(id)
    THEN CHOOSE i \in 1..Len(vs) :
             vs[i].id = ToString(id) /\ \A j \in 1..(i - 1) : vs[j].id # ToString(id)
    ELSE 0

getActiveVersion(vs, active) == getVersion(vs, active)

createNewVersion(vs, id, context) ==
    Append(vs, [id |-> ToString(id),
                context |-> IF context # NoContext THEN context[1] ELSE {},
                transcriptions |-> <<>>, userNotes |-> "", aiNotes |-> ""])

\* a plausible slip: the lookup of the existing version is skipped
setVersionOn_AlwaysCreates(vs, id, context) ==
    createNewVersion(vs, id, context)

setVersionOn(vs, id, context) ==
    LET i == getVersion(vs, id)
    IN  IF i = 0 THEN createNewVersion(vs, id, context)
        ELSE IF context # NoContext
             THEN [vs EXCEPT ![i].context = Spread(@, context[1])]
             ELSE vs

\* `${timestampStart}-${timestampEnd}-${speaker}`
TranscriptionKey(transcription) ==
    <<transcription.timestampStart, "-", transcription.timestampEnd, "-", transcription.speaker>>

\* version.transcriptions[key] = transcription, when there is an active version
addTranscription(vs, active, transcription) ==
    LET i == getActiveVersion(vs, active)
    IN  IF i = 0 THEN vs
        ELSE [vs EXCEPT ![i].transcriptions = MapSet(@, TranscriptionKey(transcription), transcription)]

\* new Date().toISOString() at the time a message is handled
Arrival == <<7, 0>>

Clock == {Arrival, <<8, 0>>}

\* `a || new Date().toISOString()` reads the clock only when a is missing:
\* the readings <<for the start, for the end>> made for a segment; the first
\* reading is the instant the message arrives, the second that or a later one
ClockReadings(segment) ==
    {now \in (IF segment.absolute_start_time # NoTime THEN {NoTime} ELSE {Arrival})
                 \X (IF segment.absolute_end_time # NoTime THEN {NoTime} ELSE Clock) :
         (now[1] # NoTime /\ now[2] # NoTime) => now[1][1] <= now[2][1]}

RECURSIVE ClockReadingsOfAll(_)
ClockReadingsOfAll(segs) ==
    IF segs = <<>> THEN {<<>>}
    ELSE {<<now>> \o rest : now \in ClockReadings(Head(segs)),
                            rest \in ClockReadingsOfAll(Tail(segs))}

UnknownLabel == "Unknown"

\* a plausible slip: the label of the speaker grouper is used for a missing speaker
ToTranscription_GrouperLabel(segment, now) ==
    [text |-> segment.text,
     timestampStart |-> IF segment.absolute_start_time # NoTime
                        THEN segment.absolute_start_time ELSE now[1],
     timestampEnd |-> IF segment.absolute_end_time # NoTime
                      THEN segment.absolute_end_time ELSE now[2],
     speaker |-> IF segment.speaker # NoSpeaker THEN segment.speaker ELSE UnknownSpeaker]

\* the Transcription that _handleWebSocketMessage builds from a segment
ToTranscription(segment, now) ==
    [text |-> segment.text,
     timestampStart |-> IF segment.absolute_start_time # NoTime
                        THEN segment.absolute_start_time ELSE now[1],
     timestampEnd |-> IF segment.absolute_end_time # NoTime
                      THEN segment.absolute_end_time ELSE now[2],
     speaker |-> IF segment.speaker # NoSpeaker THEN segment.speaker ELSE UnknownLabel]

\* a plausible slip: the transcript goes to the state only when no callback is held
onTranscriptCallback_CallbackOnly(st, active, callback, transcript) ==
    [versions |-> IF callback THEN st.versions
                  ELSE addTranscription(st.versions, active, transcript),
     log |-> IF callback THEN Append(st.log, transcript) ELSE st.log]

\* onTranscriptCallback: st = [versions, log]
onTranscriptCallback(st, active, callback, transcript) ==
    [versions |-> addTranscription(st.versions, active, transcript),
     log |-> IF callback THEN Append(st.log, transcript) ELSE st.log]

\* data.payload.segments || (data.payload.segment ? [data.payload.segment] : [])
SegmentsOf(payload) ==
    IF payload.segments # <<>> THEN payload.segments[1]
    ELSE IF payload.segment # <<>> THEN <<payload.segment[1]>>
    ELSE <<>>

RECURSIVE ForEachSegment(_, _, _, _, _)
ForEachSegment(st, active, callback, segs, nows) ==
    IF segs = <<>> THEN st
    ELSE ForEachSegment(onTranscriptCallback(st, active, callback,
                                             ToTranscription(Head(segs), Head(nows))),
                        active, callback, Tail(segs), Tail(nows))

TranscriptTypes == {"transcript.mutable", "transcript.finalized"}

OtherTypes == {"meeting.status", "error", "colour"}

\* a complete segment; a blank revision of its key with the same marker; a segment with text
\* but without absolute times and speaker; a segment without text and speaker
IngestSegments ==
    {Seg(<<1, 0>>, 1, <<"a">>, "A"),
     Seg(<<1, 0>>, 1, <<" ">>, "A"),
     Seg(NoTime, 2, <<"b">>, NoSpeaker),
     Seg(<<1, 0>>, 2, <<>>, NoSpeaker)}

IncompleteSegment(s) == ~HasText(s) \/ ~HasAbs(s)

NoPayload == [segments |-> <<>>, segment |-> <<>>]

\* a payload carries one `segment`, a `segments` array, or neither
SegmentPayloads == {[segments |-> <<>>, segment |-> <<g>>] : g \in IngestSegments}

ArrayPayloads ==
    {[segments |-> <<<<>>>>, segment |-> <<Seg(<<1, 0>>, 1, <<"a">>, "A")>>],
     [segments |-> <<<<Seg(<<1, 0>>, 1, <<"a">>, "A"), Seg(NoTime, 2, <<"b">>, NoSpeaker)>>>>,
      segment |-> <<>>],
     NoPayload}

AgentPayloads == SegmentPayloads \cup ArrayPayloads

\* the payload of the messages of other types: it carries a segment as well, so
\* that the type alone keeps it out of the state
OtherPayload == [segments |-> <<>>, segment |-> <<Seg(<<1, 0>>, 1, <<"a">>, "A")>>]

\* both transcript types share one case of the switch: each arrives with every
\* single segment, the array payloads and the absent payload arrive as mutable
AgentMessages ==
    {[type |-> t, payload |-> p] : t \in TranscriptTypes, p \in SegmentPayloads}
        \cup {[type |-> "transcript.mutable", payload |-> p] : p \in ArrayPayloads}
        \cup {[type |-> t, payload |-> OtherPayload] : t \in OtherTypes}

\* what has been delivered or set so far
Ingested == Len(hist) + Len(agentHist) + Len(versionHist)

\* StateManager.setVersion(id, context)
setVersion(id, context) ==
    /\ Ingested < MaxIngest
    /\ versions' = setVersionOn(versions, id, context)
    /\ activeVersion' = id
    /\ versionHist' = Append(versionHist, id)
    /\ UNCHANGED <<agentCallback, callbackLog, agentHist>>
    /\ UNCHANGED storeVars

\* a plausible slip: the switch falls through, every message is taken for a transcript
handleWebSocketMessage_FallsThrough(data, nows) ==
    /\ Ingested < MaxIngest
    /\ agentHist' = Append(agentHist, data)
    /\ LET st == ForEachSegment([versions |-> versions, log |-> callbackLog],
                                activeVersion, agentCallback,
                                SegmentsOf(data.payload), nows)
       IN  /\ versions' = st.versions
           /\ callbackLog' = st.log
    /\ UNCHANGED <<activeVersion, agentCallback, versionHist>>
    /\ UNCHANGED storeVars

\* VexaTranscriptionAgent._handleWebSocketMessage(data); nows[i] are the
\* readings of the clock made for the i-th segment
handleWebSocketMessage(data, nows) ==
    /\ Ingested < MaxIngest
    /\ agentHist' = Append(agentHist, data)
    /\ IF data.type \in TranscriptTypes
       THEN LET st == ForEachSegment([versions |-> versions, log |-> callbackLog],
                                     activeVersion, agentCallback,
                                     SegmentsOf(data.payload), nows)
            IN  /\ versions' = st.versions
                /\ callbackLog' = st.log
       ELSE UNCHANGED <<versions, callbackLog>>
    /\ UNCHANGED <<activeVersion, agentCallback, versionHist>>
    /\ UNCHANGED storeVars

IngestInit ==
    /\ segments = <<>>
    /\ hist = <<>>
    /\ HookInitFor(TRUE)
    /\ AppInit
    /\ DraftIdle
    /\ SseInit
    /\ ChunkIdle
    /\ GrouperIdle
    /\ StateManagerInit
    /\ AgentConstructed(TRUE, TRUE, TRUE)
    /\ agentCallback \in BOOLEAN
    /\ callbackLog = <<>>
    /\ agentHist = <<>>

IngestNext ==
    \/ \E g \in IngestSegments :
          /\ Ingested < MaxIngest
          /\ handleWebSocketTranscriptMutable(<<g>>)
          /\ UNCHANGED storeFrame
    \/ \E g \in IngestSegments :
          /\ Ingested < MaxIngest
          /\ handleWebSocketTranscriptFinalized(<<g>>)
          /\ UNCHANGED storeFrame
    \/ \E id \in VersionIds, context \in ContextArgs :
          setVersion(id, context) /\ UNCHANGED agentFrame
    \/ \E data \in AgentMessages :
          \E nows \in ClockReadingsOfAll(SegmentsOf(data.payload)) :
              handleWebSocketMessage(data, nows) /\ UNCHANGED agentFrame

SpecIngest == IngestInit /\ [][IngestNext]_vars

----------------------------------------------------------------------------
(* VexaTranscriptionAgent: joinMeeting, leaveMeeting and the WebSocket     *)

MaxAgentCalls == 3      \* joinMeeting and leaveMeeting calls in one behaviour

\* the arguments of joinMeeting: a meeting id, and whether a callback is passed
JoinArgs == {<<"m1", TRUE>>, <<"m2", FALSE>>}

\* the outcomes of GET /meetings: a bot of the meeting that has not completed,
\* no such bot, or a fetch that rejects
BotInfoOutcomes == {"found", "none", "failed"}

\* the outcomes of POST /bots: a bot with an id, a reply without id, a reply
\* that is not ok, or a fetch that rejects
RequestBotOutcomes == {"bot", "noId", "httpError", "network"}

\* the outcomes of DELETE /bots/{platform}/{meetingId}
DeleteOutcomes == {"ok", "httpError", "network"}

\* the message the server sends for a subscribed meeting
SessionMessages ==
    {[type |-> "transcript.finalized",
      payload |-> [segments |-> <<>>, segment |-> <<Seg(<<1, 0>>, 1, <<"a">>, "A")>>]]}

\* the promise of a call settles
Settle(id, call, outcome, before, quiet) ==
    settled' = Append(settled, [id |-> id, call |-> call, outcome |-> outcome,
                                before |-> before, quiet |-> quiet])

IsOpen(ws) == ws # NoWs /\ webSockets[ws].readyState = "OPEN"

\* _subscribeToMeeting() when the sockets are socks: the subscribe message goes
\* out on _ws, for the _meetingId of this moment
subscribeToMeeting(socks) ==
    IF vexaWs = NoWs \/ socks[vexaWs].readyState # "OPEN"
          \/ vexaMeetingId = NoMeetingId \/ ~vexaPlatform
    THEN socks
    ELSE [socks EXCEPT ![vexaWs].subscribed = vexaMeetingId]

\* _connectWebSocket() up to the promise it returns, entered by the join call
connectWebSocket(call) ==
    IF ~vexaBaseUrl \/ ~vexaApiKey \/ IsOpen(vexaWs)
    THEN /\ joinCalls' = joinCalls \ {call}
         /\ Settle(call.id, "join", "resolved", call.before, call.quiet)
         /\ UNCHANGED <<vexaWs, webSockets>>
    ELSE /\ webSockets' = Append(webSockets, [readyState |-> "CONNECTING", subscribed |-> NoMeetingId])
         /\ vexaWs' = Len(webSockets) + 1
         /\ joinCalls' = (joinCalls \ {call})
                            \cup {[call EXCEPT !.pc = "connect", !.socket = Len(webSockets) + 1]}
         /\ UNCHANGED settled

\* joinMeeting(meetingId, callback) up to its first await
joinMeeting(meeting, callback) ==
    /\ callsMade < MaxAgentCalls
    /\ callsMade' = callsMade + 1
    /\ hasLeft' = FALSE
    /\ IF ~vexaBaseUrl \/ ~vexaApiKey
       THEN /\ Settle(callsMade + 1, "join", "rejected", vexaMeetingId,
                      joinCalls = {} /\ leaveCalls = {})
            /\ UNCHANGED <<vexaMeetingId, agentCallback, joinCalls>>
       ELSE /\ vexaMeetingId' = meeting
            /\ agentCallback' = callback
            /\ joinCalls' = joinCalls \cup
                   {[id |-> callsMade + 1, meetingId |-> meeting, pc |-> "getBotInfo",
                     socket |-> NoWs, before |-> vexaMeetingId,
                     quiet |-> (joinCalls = {} /\ leaveCalls = {})]}
            /\ UNCHANGED settled
    /\ UNCHANGED <<vexaBaseUrl, vexaApiKey, vexaPlatform, vexaBotId, vexaWs, webSockets, leaveCalls>>
    /\ UNCHANGED <<activeVersion, versions, callbackLog, agentHist, versionHist>>
    /\ UNCHANGED sessionFrame

\* joinMeeting after `await this._getBotInfo()`: the loop over the meetings
\* compares with the _meetingId of this moment
getBotInfoReply(call, outcome) ==
    /\ call \in joinCalls
    /\ call.pc = "getBotInfo"
    /\ outcome = "found" => vexaMeetingId # NoMeetingId
    /\ CASE outcome = "found" -> connectWebSocket(call)
         [] outcome = "none" ->
                /\ joinCalls' = (joinCalls \ {call}) \cup {[call EXCEPT !.pc = "requestBot"]}
                /\ UNCHANGED <<vexaWs, webSockets, settled>>
         [] OTHER ->
                /\ joinCalls' = joinCalls \ {call}
                /\ Settle(call.id, "join", "rejected", call.before, call.quiet)
                /\ UNCHANGED <<vexaWs, webSockets>>
    /\ UNCHANGED <<vexaBaseUrl, vexaApiKey, vexaPlatform, vexaMeetingId, vexaBotId, leaveCalls,
                   callsMade, hasLeft>>
    /\ UNCHANGED agentVars
    /\ UNCHANGED sessionFrame

\* joinMeeting after `await this.requestBot(meetingId)`
requestBotReply(call, outcome) ==
    /\ call \in joinCalls
    /\ call.pc = "requestBot"
    /\ IF outcome \in {"bot", "noId"}
       THEN /\ vexaBotId' = (IF outcome = "bot" THEN "bot" ELSE vexaBotId)
            /\ connectWebSocket(call)
       ELSE /\ joinCalls' = joinCalls \ {call}
            /\ Settle(call.id, "join", "rejected", call.before, call.quiet)
            /\ UNCHANGED <<vexaBotId, vexaWs, webSockets>>
    /\ UNCHANGED <<vexaBaseUrl, vexaApiKey, vexaPlatform, vexaMeetingId, leaveCalls,
                   callsMade, hasLeft>>
    /\ UNCHANGED agentVars
    /\ UNCHANGED sessionFrame

\* ws.onopen of the socket ws: _subscribeToMeeting(), then the promise of
\* _connectWebSocket resolves
onopen(ws) ==
    /\ ws \in 1..Len(webSockets)
    /\ webSockets[ws].readyState = "CONNECTING"
    /\ webSockets' = subscribeToMeeting([webSockets EXCEPT ![ws].readyState = "OPEN"])
    /\ \E call \in joinCalls :
          /\ call.pc = "connect"
          /\ call.socket = ws
          /\ joinCalls' = joinCalls \ {call}
          /\ Settle(call.id, "join", "resolved", call.before, call.quiet)
    /\ UNCHANGED <<vexaBaseUrl, vexaApiKey, vexaPlatform, vexaMeetingId, vexaBotId, vexaWs,
                   leaveCalls, callsMade, hasLeft>>
    /\ UNCHANGED agentVars
    /\ UNCHANGED sessionFrame

\* ws.onerror of a socket that has not opened (the connection fails, or the
\* socket was closed while connecting): the promise of _connectWebSocket rejects
onerror(ws) ==
    /\ ws \in 1..Len(webSockets)
    /\ webSockets[ws].readyState \in {"CONNECTING", "CLOSED"}
    /\ webSockets' = [webSockets EXCEPT ![ws].readyState = "CLOSED"]
    /\ \E call \in joinCalls :
          /\ call.pc = "connect"
          /\ call.socket = ws
          /\ joinCalls' = joinCalls \ {call}
          /\ Settle(call.id, "join", "rejected", call.before, call.quiet)
    /\ UNCHANGED <<vexaBaseUrl, vexaApiKey, vexaPlatform, vexaMeetingId, vexaBotId, vexaWs,
                   leaveCalls, callsMade, hasLeft>>
    /\ UNCHANGED agentVars
    /\ UNCHANGED sessionFrame

\* ws.onmessage of an open socket that is subscribed to a meeting
onmessage(ws, data) ==
    /\ ws \in 1..Len(webSockets)
    /\ webSockets[ws].readyState = "OPEN"
    /\ webSockets[ws].subscribed # NoMeetingId
    /\ \E nows \in ClockReadingsOfAll(SegmentsOf(data.payload)) : handleWebSocketMessage(data, nows)
    /\ UNCHANGED agentFrame

\* leaveMeeting() up to its await: _disconnectWebSocket(), then the DELETE
leaveMeeting ==
    /\ callsMade < MaxAgentCalls
    /\ callsMade' = callsMade + 1
    /\ IF vexaMeetingId = NoMeetingId
       THEN /\ Settle(callsMade + 1, "leave", "resolved",
                      [meetingId |-> vexaMeetingId, ws |-> vexaWs, open |-> IsOpen(vexaWs)],
                      joinCalls = {} /\ leaveCalls = {})
            /\ hasLeft' = TRUE
            /\ UNCHANGED <<vexaWs, webSockets, leaveCalls>>
       ELSE /\ webSockets' = (IF vexaWs # NoWs
                              THEN [webSockets EXCEPT ![vexaWs].readyState = "CLOSED",
                                                      ![vexaWs].subscribed = NoMeetingId]
                              ELSE webSockets)
            /\ vexaWs' = NoWs
            /\ leaveCalls' = leaveCalls \cup
                   {[id |-> callsMade + 1, meetingId |-> vexaMeetingId,
                     before |-> [meetingId |-> vexaMeetingId, ws |-> vexaWs, open |-> IsOpen(vexaWs)],
                     quiet |-> (joinCalls = {} /\ leaveCalls = {})]}
            /\ UNCHANGED <<settled, hasLeft>>
    /\ UNCHANGED <<vexaBaseUrl, vexaApiKey, vexaPlatform, vexaMeetingId, vexaBotId, joinCalls>>
    /\ UNCHANGED agentVars
    /\ UNCHANGED sessionFrame

\* leaveMeeting after `await fetch(..., {method: 'DELETE'})`
leaveReply(call, outcome) ==
    /\ call \in leaveCalls
    /\ leaveCalls' = leaveCalls \ {call}
    /\ IF outcome = "ok"
       THEN /\ vexaMeetingId' = NoMeetingId
            /\ vexaBotId' = NoBot
            /\ hasLeft' = TRUE
            /\ Settle(call.id, "leave", "resolved", call.before, call.quiet)
       ELSE /\ Settle(call.id, "leave", "rejected", call.before, call.quiet)
            /\ UNCHANGED <<vexaMeetingId, vexaBotId, hasLeft>>
    /\ UNCHANGED <<vexaBaseUrl, vexaApiKey, vexaPlatform, vexaWs, webSockets, joinCalls, callsMade>>
    /\ UNCHANGED agentVars
    /\ UNCHANGED sessionFrame

SessionInit ==
    /\ segments = <<>>
    /\ hist = <<>>
    /\ HookInitFor(FALSE)
    /\ AppInit
    /\ DraftIdle
    /\ SseInit
    /\ ChunkIdle
    /\ GrouperIdle
    /\ StateManagerInit
    /\ \E baseUrl, apiKey, platform \in BOOLEAN : AgentConstructed(baseUrl, apiKey, platform)
    /\ agentCallback = FALSE
    /\ callbackLog = <<>>
    /\ agentHist = <<>>

SessionNext ==
    \/ setVersion(1, NoContext) /\ UNCHANGED agentFrame
    \/ \E args \in JoinArgs : joinMeeting(args[1], args[2])
    \/ \E call \in joinCalls, outcome \in BotInfoOutcomes : getBotInfoReply(call, outcome)
    \/ \E call \in joinCalls, outcome \in RequestBotOutcomes : requestBotReply(call, outcome)
    \/ \E ws \in 1..Len(webSockets) : onopen(ws)
    \/ \E ws \in 1..Len(webSockets) : onerror(ws)
    \/ \E ws \in 1..Len(webSockets), data \in SessionMessages : onmessage(ws, data)
    \/ leaveMeeting
    \/ \E call \in leaveCalls, outcome \in DeleteOutcomes : leaveReply(call, outcome)

SpecSession == SessionInit /\ [][SessionNext]_vars

----------------------------------------------------------------------------
(* useDraftNote: the debounced upsert of a draft note                      *)

MaxEdits == 3           \* updateDraftNote calls accepted in one behaviour
MaxClears == 1          \* clearDraftNote calls in one behaviour

\* playlistId, versionId and userEmail of a render: two versions, and no user
DraftParams == {<<1, 1, "u">>, <<1, 2, "u">>, <<1, 1, "">>}

\* the updates argument of updateDraftNote: one field of the note each
DraftUpdates == {[content |-> "a", subject |-> Absent],
                 [content |-> Absent, subject |-> "b"]}

isEnabled == playlistId # 0 /\ versionId # 0 /\ userEmail # ""

EmptyString == [text |-> "", value |-> <<>>]

JsonStringify(list) == [text |-> "json", value |-> list]

createEmptyDraft(currentVersion, submitter) ==
    [content |-> "", subject |-> "", to |-> submitter, cc |-> <<>>,
     links |-> currentVersion, versionStatus |-> ""]

parseEntitiesFromString(str) ==
    IF str.text = "json" THEN str.value ELSE <<>>

backendToLocal(note) ==
    [content |-> note.content,
     subject |-> note.subject,
     to |-> parseEntitiesFromString(note.to),
     cc |-> parseEntitiesFromString(note.cc),
     links |-> [i \in 1..Len(note.links) |->
                   [type |-> note.links[i].entity_type, id |-> note.links[i].entity_id,
                    name |-> ""]],
     versionStatus |-> note.version_status]

localToUpdate(local) ==
    [content |-> local.content,
     subject |-> local.subject,
     to |-> IF Len(local.to) > 0 THEN JsonStringify(local.to) ELSE EmptyString,
     cc |-> IF Len(local.cc) > 0 THEN JsonStringify(local.cc) ELSE EmptyString,
     links |-> [i \in 1..Len(local.links) |->
                   [entity_type |-> local.links[i].type, entity_id |-> local.links[i].id]],
     version_status |-> local.versionStatus]

\* the draft note the server holds for a version
ServerNotes ==
    {[content |-> "s", subject |-> "", to |-> EmptyString, cc |-> EmptyString,
      links |-> <<[entity_type |-> "Version", entity_id |-> 7]>>, version_status |-> ""]}

\* { ...base, ...updates }
MergeUpdates(base, updates) ==
    [f \in DOMAIN base |-> IF f \in EditFields
                           THEN (IF updates[f] # Absent THEN updates[f] ELSE base[f])
                           ELSE base[f]]

\* if (ref.current) clearTimeout(ref.current)
clearTimeout(table, ref) == IF ref # 0 THEN {t \in table : t.handle # ref} ELSE table

\* the fields of `due` that the upsert of `data` does not carry
StillOwed(due, data) ==
    [f \in EditFields |-> IF due[f] # Absent /\ data[f] = due[f] THEN Absent ELSE due[f]]

\* pendingMutationRef.current = upsertMutation.mutateAsync({ data }); pendingDataRef.current = null
SendPending ==
    LET data == localToUpdate(pendingDataRef[1])
    IN  /\ upserts' = Append(upserts, [playlistId |-> playlistId, versionId |-> versionId,
                                       userEmail |-> userEmail, data |-> data])
        /\ pendingMutationRef' = Len(upserts) + 1
        /\ pendingDataRef' = <<>>
        /\ owed' = StillOwed(owed, data)

updateDraftNote(updates) ==
    /\ draftMounted
    /\ isEnabled
    /\ edits < MaxEdits
    /\ LET base == IF localDraft = <<>> THEN createEmptyDraft(<<>>, <<>>) ELSE localDraft[1]
           updated == MergeUpdates(base, updates)
           cleared == clearTimeout(timeouts, debounceTimerRef)
           timer == [handle |-> NewHandle(cleared)]
       IN  /\ localDraft' = <<updated>>
           /\ pendingDataRef' = <<updated>>
           /\ timeouts' = cleared \cup {timer}
           /\ debounceTimerRef' = timer.handle
    /\ edits' = edits + 1
    /\ owed' = [f \in EditFields |-> IF updates[f] # Absent THEN updates[f] ELSE owed[f]]
    /\ UNCHANGED <<playlistId, versionId, userEmail, pendingMutationRef, hasInitializedRef,
                   serverDraft, isLoading, upserts, deletes, draftMounted>>

\* the setTimeout callback of updateDraftNote, 300 ms after the last edit
DebounceExpires(t) ==
    /\ t \in timeouts
    /\ timeouts' = timeouts \ {t}
    /\ IF pendingDataRef # <<>>
       THEN SendPending
       ELSE UNCHANGED <<upserts, pendingMutationRef, pendingDataRef, owed>>
    /\ UNCHANGED <<playlistId, versionId, userEmail, localDraft, debounceTimerRef,
                   hasInitializedRef, serverDraft, isLoading, deletes, draftMounted, edits>>

\* the cleanup of the flush effect, with the isEnabled of the render that set it up
flushPending(enabled) ==
    /\ timeouts' = clearTimeout(timeouts, debounceTimerRef)
    /\ debounceTimerRef' = 0
    /\ IF pendingDataRef # <<>> /\ enabled
       THEN SendPending
       ELSE UNCHANGED <<upserts, pendingMutationRef, pendingDataRef, owed>>

\* a render with another playlist, version or user: the flush effect is cleaned up,
\* the query of the new key starts, and the effect that syncs from the server runs
ParamsChange(params) ==
    /\ draftMounted
    /\ params # <<playlistId, versionId, userEmail>>
    /\ flushPending(isEnabled)
    /\ playlistId' = params[1]
    /\ versionId' = params[2]
    /\ userEmail' = params[3]
    /\ serverDraft' = <<>>
    /\ isLoading' = isEnabled'
    /\ IF ~isEnabled'
       THEN localDraft' = <<>> /\ hasInitializedRef' = FALSE
       ELSE UNCHANGED <<localDraft, hasInitializedRef>>
    /\ UNCHANGED <<deletes, draftMounted, edits>>

\* the draft-note query settles with the server's note (<<>> for null), and the effect
\* that syncs from the server runs
QueryLoaded(result) ==
    /\ draftMounted
    /\ isEnabled
    /\ isLoading
    /\ isLoading' = FALSE
    /\ serverDraft' = result
    /\ IF hasInitializedRef
       THEN UNCHANGED <<localDraft, hasInitializedRef>>
       ELSE /\ localDraft' = (IF result # <<>> THEN <<backendToLocal(result[1])>>
                              ELSE <<createEmptyDraft(<<>>, <<>>)>>)
            /\ hasInitializedRef' = TRUE
    /\ UNCHANGED <<playlistId, versionId, userEmail, debounceTimerRef, pendingMutationRef,
                   pendingDataRef, timeouts, upserts, deletes, draftMounted, edits, owed>>

clearDraftNote ==
    /\ draftMounted
    /\ isEnabled
    /\ deletes < MaxClears
    /\ timeouts' = clearTimeout(timeouts, debounceTimerRef)
    /\ debounceTimerRef' = 0
    /\ pendingDataRef' = <<>>
    /\ deletes' = deletes + 1
    /\ localDraft' = <<createEmptyDraft(<<>>, <<>>)>>
    /\ owed' = NothingOwed
    /\ UNCHANGED <<playlistId, versionId, userEmail, pendingMutationRef, hasInitializedRef,
                   serverDraft, isLoading, upserts, draftMounted, edits>>

\* the component is unmounted: the flush effect is cleaned up
DraftUnmount ==
    /\ draftMounted
    /\ flushPending(isEnabled)
    /\ draftMounted' = FALSE
    /\ UNCHANGED <<playlistId, versionId, userEmail, localDraft, hasInitializedRef,
                   serverDraft, isLoading, deletes, edits>>

draftFrame == <<storeVars, hookVars, appVars, sseVars, chunkVars, grouperVars, agentVars,
                sessionVars, lifeVars>>

\* the first render of a component that calls useDraftNote
DraftInit ==
    /\ segments = <<>>
    /\ hist = <<>>
    /\ HookInitFor(FALSE)
    /\ AppInit
    /\ SseInit
    /\ ChunkIdle
    /\ GrouperIdle
    /\ AgentIdle
    /\ \E params \in DraftParams :
          /\ playlistId = params[1]
          /\ versionId = params[2]
          /\ userEmail = params[3]
    /\ localDraft = <<>>
    /\ debounceTimerRef = 0
    /\ pendingMutationRef = 0
    /\ pendingDataRef = <<>>
    /\ hasInitializedRef = FALSE
    /\ serverDraft = <<>>
    /\ isLoading = isEnabled
    /\ timeouts = {}
    /\ upserts = <<>>
    /\ deletes = 0
    /\ draftMounted = TRUE
    /\ edits = 0
    /\ owed = NothingOwed

DraftNext ==
    \/ \E updates \in DraftUpdates : updateDraftNote(updates) /\ UNCHANGED draftFrame
    \/ \E t \in timeouts : DebounceExpires(t) /\ UNCHANGED draftFrame
    \/ \E params \in DraftParams : ParamsChange(params) /\ UNCHANGED draftFrame
    \/ \E result \in {<<>>} \cup {<<note>> : note \in ServerNotes} :
           QueryLoaded(result) /\ UNCHANGED draftFrame
    \/ clearDraftNote /\ UNCHANGED draftFrame
    \/ DraftUnmount /\ UNCHANGED draftFrame

SpecDraft == DraftInit /\ [][DraftNext]_vars

\* a timer that was set and not cleared fires
SpecDraftLive ==
    SpecDraft /\ WF_vars(\E t \in timeouts : DebounceExpires(t) /\ UNCHANGED draftFrame)

----------------------------------------------------------------------------
(* Segment Store properties (SpecStore)                                    *)

IsUpsertable(s) == HasText(s) /\ HasAbs(s)

\* the deliveries that reached mergeByAbsoluteUtc, in arrival order
Upserted == SelectSeq(hist, IsUpsertable)

UpsertedFor(k) == SelectSeq(Upserted, LAMBDA s : getAbsKey(s) = k)

HasStored(k) == \E i \in 1..Len(segments) : getAbsKey(segments[i]) = k

Stored(k) == segments[CHOOSE i \in 1..Len(segments) : getAbsKey(segments[i]) = k]

\* the segments of a set in one fixed order: by time string, then by revision marker
Rank(s) == 100 * s.absolute_start_time[1] + 10 * s.absolute_start_time[2] + s.updated_at

RECURSIVE CanonicalSeq(_)
CanonicalSeq(S) ==
    IF S = {} THEN <<>>
    ELSE LET m == CHOOSE x \in S : \A y \in S : Rank(x) <= Rank(y)
         IN  <<m>> \o CanonicalSeq(S \ {m})

Range(f) == {f[i] : i \in DOMAIN f}

\* the snapshot after the same deliveries arrive as one batch in the fixed order
CanonicalSnapshot == ApplyTranscript(<<>>, CanonicalSeq(Range(hist)))

\* the snapshot after the deliveries h arrive one by one
RECURSIVE Replay(_)
Replay(h) ==
    IF h = <<>> THEN <<>>
    ELSE ApplyTranscript(Replay(SubSeq(h, 1, Len(h) - 1)), <<h[Len(h)]>>)

DistinctKeys(h) ==
    \A i, j \in 1..Len(h) : i # j => getAbsKey(h[i]) # getAbsKey(h[j])

\* C1: segments with pairwise distinct keys, upserted into the empty store in any
\* order and any batching, give the snapshot that the fixed order gives.
C1_OrderIndependence ==
    ((\A i \in 1..Len(hist) : IsUpsertable(hist[i])) /\ DistinctKeys(hist))
        => segments = CanonicalSnapshot

\* C2: of two revisions of one key with updated_at T1 < T2, the store holds the T2
\* one once both were upserted, whichever came first.
C2_NewerRevisionRetained ==
    \A k \in Keys :
        LET d == UpsertedFor(k)
        IN  (/\ Len(d) = 2
             /\ d[1].updated_at # NoUpd
             /\ d[2].updated_at # NoUpd
             /\ d[1].updated_at # d[2].updated_at)
            => /\ HasStored(k)
               /\ Stored(k) = Cleaned(IF d[1].updated_at < d[2].updated_at THEN d[2] ELSE d[1])

C2_NewerArrivedFirst ==
    \E k \in Keys :
        LET d == UpsertedFor(k)
        IN  /\ Len(d) = 2
            /\ d[2].updated_at # NoUpd
            /\ d[2].updated_at < d[1].updated_at
            /\ d[1].text # d[2].text
            /\ HasStored(k)
            /\ Stored(k) = Cleaned(d[1])

\* C3: deliveries that all carry updated_at, where two different revisions of a key
\* never share an updated_at, give the same snapshot and the same groups in every
\* arrival order and batching (duplicates included).
C3_Convergence ==
    (/\ \A i \in 1..Len(hist) : IsUpsertable(hist[i]) /\ hist[i].updated_at # NoUpd
     /\ \A i, j \in 1..Len(hist) :
            (getAbsKey(hist[i]) = getAbsKey(hist[j]) /\ hist[i].updated_at = hist[j].updated_at)
                => hist[i] = hist[j])
        => /\ segments = CanonicalSnapshot
           /\ groupSegmentsBySpeaker(segments) = groupSegmentsBySpeaker(CanonicalSnapshot)

\* C4: a segment delivered twice in a row leaves the snapshot that one delivery
\* leaves, and the snapshot never holds two entries of one key.
C4_IdempotentUpsert ==
    /\ DistinctKeys(segments)
    /\ LET n == Len(hist)
       IN  (n >= 2 /\ hist[n] = hist[n - 1] /\ IsUpsertable(hist[n]))
               => segments = Replay(SubSeq(hist, 1, n - 1))

C4_DeliveredTwice ==
    LET n == Len(hist)
    IN  /\ n >= 3
        /\ hist[n] = hist[n - 1]
        /\ IsUpsertable(hist[n])
        /\ Len(segments) = 2

\* C5: of two segments of one key of which at least one lacks updated_at, the store
\* holds the one upserted last.
C5_LastWriteWinsWithoutMarker ==
    \A k \in Keys :
        LET d == UpsertedFor(k)
        IN  (Len(d) = 2 /\ (d[1].updated_at = NoUpd \/ d[2].updated_at = NoUpd))
            => /\ HasStored(k)
               /\ Stored(k) = Cleaned(d[2])

C5_UnmarkedAfterMarked ==
    \E k \in Keys :
        LET d == UpsertedFor(k)
        IN  /\ Len(d) = 2
            /\ d[1].updated_at # NoUpd
            /\ d[2].updated_at = NoUpd
            /\ d[1].text # d[2].text
            /\ HasStored(k)
            /\ Stored(k) = Cleaned(d[2])

\* the time string a is earlier than the time string b
EarlierTime(a, b) == a[1] < b[1] \/ (a[1] = b[1] /\ a[2] < b[2])

\* C23: snapshot ordering: after any sequence of upserts the snapshot is sorted
\* ascending by absolute_start_time, and an entry without absolute time never
\* stands before an entry that has one.
C23_SnapshotOrdered ==
    \A i, j \in 1..Len(segments) :
        i < j =>
            /\ (HasAbs(segments[i]) /\ HasAbs(segments[j]))
                  => ~EarlierTime(segments[j].absolute_start_time, segments[i].absolute_start_time)
            /\ HasAbs(segments[j]) => HasAbs(segments[i])

\* the n-th delivery carried a revision marker and was accepted into the store
AcceptedRevision(n) ==
    LET s == hist[n]
        after == Replay(SubSeq(hist, 1, n))
    IN  /\ IsUpsertable(s)
        /\ s.updated_at # NoUpd
        /\ \E i \in 1..Len(after) : /\ getAbsKey(after[i]) = getAbsKey(s)
                                    /\ after[i].updated_at = s.updated_at

\* C30: a newer revision is never superseded by an older one: once a revision
\* with updated_at = T2 has been accepted into the store, the store never
\* afterwards holds a revision of that key with updated_at = T1 < T2, whatever
\* other revisions of the key (also ones without updated_at) arrive in between.
C30_NewerNeverSuperseded ==
    \A n \in 1..Len(hist) :
        (/\ AcceptedRevision(n)
         /\ HasStored(getAbsKey(hist[n]))
         /\ Stored(getAbsKey(hist[n])).updated_at # NoUpd)
            => Stored(getAbsKey(hist[n])).updated_at >= hist[n].updated_at


----------------------------------------------------------------------------
(* Session properties (SpecHook)                                           *)

IsTranscriptEvent(e) == e.kind \in {"transcript.mutable", "transcript.finalized"}

\* the session of the event was stopped: by a terminal status, by the effect's cleanup
\* or by the effect opening another meeting
TornDown(e) == e.session \notin subscriptions

\* C7: a transcript event of a torn-down session that is handed to its callback
\* afterwards leaves the segments as they were.
C7_LateEventsIgnored ==
    [][\A e \in inflight :
          (e \notin inflight' /\ IsTranscriptEvent(e) /\ TornDown(e)) => segments' = segments]_vars

\* the session is Completed or Error
SessionTerminal == meetingStatus \in {"completed", "failed", "error"} \/ error # NoError

\* a connected, meeting.status or transcript event is handled in this step
SessionEventHandled ==
    \E e \in inflight :
        /\ e \notin inflight'
        /\ e.kind \in {"connected", "meeting.status", "transcript.mutable", "transcript.finalized"}

\* C37: terminal states are absorbing: once the session is Completed or Error,
\* no connected, meeting.status or transcript event moves it back to Connected
\* or Active.
C37_TerminalAbsorbing ==
    [][(SessionTerminal /\ SessionEventHandled)
          => meetingStatus' \notin {"connected", "active"}]_vars


----------------------------------------------------------------------------
(* Capture and routing properties of App (SpecApp)                         *)

\* a GET /transcripts reply is handled in this step
TranscriptHandled(req) == req \in transcriptInflight /\ req \notin transcriptInflight'

\* a GET /bot-status reply is handled in this step
StatusHandled(req) == req \in statusInflight /\ req \notin statusInflight'

\* the bot is in the meeting and transcript capture is switched off
CapturePaused == botIsActive /\ joinedMeetId # "" /\ ~isPollingTranscripts

\* every row but idx keeps its transcription in this step
OnlyRowWritten(idx) == \A i \in DOMAIN rows : i # idx => rows'[i] = rows[i]

\* C6: pause discards, not queues: a batch of segments that is delivered
\* while capture is paused never reaches the transcription of any row.
C6_PauseDiscards ==
    [][\A req \in transcriptInflight :
          (TranscriptHandled(req) /\ CapturePaused) => rows' = rows]_vars

\* C8: completion tears down: when a status reply reporting "completed" is
\* handled while transcript polling runs, polling is stopped (no interval,
\* isPollingTranscripts false) and the bot is no longer shown as active.
C8_CompletionTearsDown ==
    [][\A req \in statusInflight :
          (StatusHandled(req) /\ status' = "Bot Status: completed" /\ isPollingTranscripts)
              => (~pollingInterval'.live /\ ~isPollingTranscripts' /\ ~botIsActive')]_vars

\* C13: error transition: when a bot-status request fails (transport error)
\* or its reply reports "failed" while transcript polling runs, the bot is
\* no longer shown as active and transcript polling is torn down.
C13_ErrorTearsDown ==
    [][\A req \in statusInflight :
          (StatusHandled(req) /\ status' \in {"Bot Status: error", "Bot Status: failed"}
                              /\ isPollingTranscripts)
              => (~botIsActive' /\ ~pollingInterval'.live /\ ~isPollingTranscripts')]_vars

\* C9: pinning overrides focus: a batch that is applied while row X is
\* pinned is written to X's transcription and to no other row's.
C9_PinOverridesFocus ==
    [][\A req \in transcriptInflight :
          (TranscriptHandled(req) /\ rows' # rows /\ pinnedIndex # Null)
              => OnlyRowWritten(pinnedIndex)]_vars

\* C10: unpinning restores focus routing: once the pinned row has been
\* unpinned and no row is pinned, a batch that is applied is written to the
\* currently focused row and to no other.
C10_UnpinRestoresFocus ==
    [][\A req \in transcriptInflight :
          (TranscriptHandled(req) /\ rows' # rows /\ unpinned /\ pinnedIndex = Null)
              => OnlyRowWritten(currentIndex)]_vars

\* the target that routing selects: the pinned row, else the focused row
SelectedRow == RouteIndex(pinnedIndex, currentIndex, RowCount(rows))

\* a playlist is loaded in this step: every row starts empty, the first row is focused
PlaylistLoaded == rows' = [i \in RowIndexes |-> <<>>] /\ currentIndex' = 0

\* C20: routing does not disturb other targets: a step that changes the
\* focused row or the pin leaves every row's transcription as it was, and a
\* batch that is applied changes the transcription of the selected row (the
\* pinned row, else the focused row) and of no other row.
C20_RoutingFrame ==
    [][/\ ((currentIndex' # currentIndex \/ pinnedIndex' # pinnedIndex) /\ ~PlaylistLoaded)
             => rows' = rows
       /\ \A req \in transcriptInflight :
             (TranscriptHandled(req) /\ rows' # rows) => OnlyRowWritten(SelectedRow)]_vars

\* the capture button is clicked in this step: capture switches between
\* running and paused and no reply, join or exit is handled
CaptureToggled ==
    /\ isPollingTranscripts' # isPollingTranscripts
    /\ statusInflight' = statusInflight
    /\ submitInflight' = submitInflight
    /\ exitInflight' = exitInflight
    /\ submitting' = submitting

\* C21: pause is purely local: a click that pauses or resumes capture leaves
\* the remote session (the bot counts as active, its status message), the
\* joined meeting and the monitoring of the bot status (the status interval
\* and the requests it has in flight) as they were.
C21_PauseIsLocal ==
    [][CaptureToggled =>
          /\ botIsActive' = botIsActive
          /\ status' = status
          /\ joinedMeetId' = joinedMeetId
          /\ botStatusInterval' = botStatusInterval]_vars

\* the statuses that are neither active, completed nor a failure
InformationalStatuses ==
    BotStatuses \ {"active", "test-mode-running", "completed", "error", "failed", ""}

\* a status reply that carries an informational status is handled in this step
InformationalHandled ==
    /\ \E req \in statusInflight : StatusHandled(req)
    /\ status' \in {"Bot Status: " \o st : st \in InformationalStatuses}

\* C22: informational statuses cause no transition: a status reply whose
\* status is none of "active", "test-mode-running", "completed", "error" and
\* "failed" leaves the session state (whether the bot counts as active, the
\* joined meeting) and the capture gating as they were.
C22_InformationalNoTransition ==
    [][InformationalHandled =>
          /\ botIsActive' = botIsActive
          /\ joinedMeetId' = joinedMeetId
          /\ isPollingTranscripts' = isPollingTranscripts
          /\ pollingInterval' = pollingInterval]_vars

\* a GET /transcripts reply with segments is appended to a row in this step
\* while the transcript interval is live
BatchAppended(req) ==
    /\ TranscriptHandled(req)
    /\ pollingInterval.live
    /\ req.meeting = pollingInterval.meeting
    /\ rows' # rows

\* C33: exactly-once polling: during one transcript-polling session each
\* segment the backend returns is appended to the routed row exactly once,
\* also when a fetch is still in flight when the next poll fires. A reply to
\* the cursor c carries the segments c + 1, c + 2, ...: the batch that is
\* appended starts right after the last segment appended so far, so that no
\* segment is appended twice and none is skipped.
C33_ExactlyOncePolling ==
    [][\A req \in transcriptInflight :
          BatchAppended(req) => req.cursor = lastSegmentIndex]_vars

\* stopTranscriptPolling ran, the bot exited successfully, or App was unmounted
StopsPolling ==
    \/ isPollingTranscripts /\ ~isPollingTranscripts'
    \/ submitInflight' # submitInflight /\ ~submitting /\ submitting'
    \/ exitInflight' # exitInflight /\ status' = "Bot exited successfully."
    \/ mounted /\ ~mounted'

\* C38: at any time at most one transcript-polling interval and at most one
\* bot-status-polling interval are live, and after stopTranscriptPolling, a
\* successful exit or unmount no transcript-polling interval remains live.
C38_SinglePollingTimer ==
    [][/\ Cardinality(intervals'.transcript) <= 1
       /\ Cardinality(intervals'.status) <= 1
       /\ StopsPolling => intervals'.transcript = {}
       /\ ~mounted' => intervals'.transcript = {}]_vars

\* App was unmounted while its transcript polling, started by the button and already
\* fired, was live: the ref keeps the id and the browser holds no such interval
C38_UnmountedWhilePolling ==
    /\ ~mounted
    /\ pollingInterval.live
    /\ issued.transcript > 0
    /\ intervals.transcript = {}



----------------------------------------------------------------------------
(* Reconnection of the webhook event stream (SpecSse)                      *)

\* the reconnect timeout t fires in this step
TimeoutFires(t) == t \in reconnectTimers /\ t \notin reconnectTimers'

\* a new EventSource is created in this step
Reconnects == opened' = opened + 1

\* the EventSource that eventSourceRef.current holds is closed (or there is none)
ConnectionLost == \A es \in eventSources : es.id # eventSourceRef

\* C11: reconnection: when the 5 s timeout set by a lost connection fires
\* while transcript polling runs (the session is expected to be live and
\* was not torn down) and the event connection is still lost, a reconnect
\* attempt is made.
C11_ReconnectAfterDelay ==
    [][\A t \in reconnectTimers :
          (TimeoutFires(t) /\ isPollingTranscripts /\ ConnectionLost) => Reconnects]_vars

\* C12: no reconnect after teardown: when a reconnect timeout fires after
\* the user stopped polling (no session is live), no EventSource is created
\* and the set of open event connections stays as it is.
C12_NoReconnectAfterTeardown ==
    [][\A t \in reconnectTimers :
          (TimeoutFires(t) /\ ~isPollingTranscripts /\ ~submitting)
              => (~Reconnects /\ eventSources' = eventSources)]_vars

----------------------------------------------------------------------------
(* Chunker properties (SpecChunk)                                          *)

Normalized(t) == CollapseWs(TrimEnd(TrimStart(t)))

\* texts joined in order with single spaces
RECURSIVE JoinWithSpaces(_)
JoinWithSpaces(ts) ==
    IF ts = <<>> THEN <<>>
    ELSE IF Len(ts) = 1 THEN ts[1]
    ELSE ts[1] \o <<WS>> \o JoinWithSpaces(Tail(ts))

\* a space that follows '.', '!' or '?' occurs in t
HasBoundary(t) == \E i \in 2..Len(t) : t[i] = WS /\ IsBoundaryPunct(t[i - 1])

\* the sentences from the i-th on whose space-join is the chunk c, as a count (0: none)
SentencesTaken(sentences, i, c) ==
    LET fits == {k \in 1..(Len(sentences) - i + 1) :
                     JoinWithSpaces(SubSeq(sentences, i, i + k - 1)) = c}
    IN  IF fits = {} THEN 0 ELSE CHOOSE k \in fits : TRUE

\* cs, from its j-th chunk on, is the sentences from the i-th on cut into consecutive runs
RECURSIVE CoversFrom(_, _, _, _)
CoversFrom(sentences, i, cs, j) ==
    IF j > Len(cs) THEN i = Len(sentences) + 1
    ELSE LET k == SentencesTaken(sentences, i, cs[j])
         IN  k > 0 /\ CoversFrom(sentences, i + k, cs, j + 1)

\* C14: chunk round-trip: joining the returned chunks in order with single
\* spaces reproduces the whitespace-normalized input text.
C14_ChunkRoundTrip ==
    returned => JoinWithSpaces(outputChunks) = Normalized(inputText)

\* a text of several sentences that does not fit the limit was chunked
C14_SeveralChunks ==
    returned /\ Len(outputChunks) >= 2 /\ inputMaxLen >= 2

\* C15: chunk length bound: every returned chunk has at most maxLen
\* characters, except a chunk that is exactly one sentence of the normalized
\* text whose own length exceeds maxLen.
C15_ChunkLengthBound ==
    returned =>
        \A i \in 1..Len(outputChunks) :
            \/ Len(outputChunks[i]) <= inputMaxLen
            \/ \E j \in 1..Len(SplitSentences(Normalized(inputText))) :
                   outputChunks[i] = SplitSentences(Normalized(inputText))[j]

\* a call returned an oversized sentence next to another chunk
C15_OversizedBesideOther ==
    /\ returned
    /\ Len(outputChunks) >= 2
    /\ inputMaxLen >= 1
    /\ \E i \in 1..Len(outputChunks) : Len(outputChunks[i]) > inputMaxLen

\* C16: no mid-sentence split: the returned chunks are the sentences of the
\* normalized text cut into runs of one or more whole consecutive sentences;
\* a text longer than maxLen without a sentence boundary comes back as
\* exactly one chunk, the whole normalized text.
C16_NoMidSentenceSplit ==
    returned =>
        /\ CoversFrom(SplitSentences(Normalized(inputText)), 1, outputChunks, 1)
        /\ (Len(Normalized(inputText)) > inputMaxLen /\ ~HasBoundary(Normalized(inputText)))
               => outputChunks = <<Normalized(inputText)>>

\* a text longer than maxLen without a sentence boundary was chunked
C16_LongSingleSentence ==
    /\ returned
    /\ Len(Normalized(inputText)) > inputMaxLen + 1
    /\ ~HasBoundary(Normalized(inputText))
    /\ inputMaxLen >= 1

\* the index of the sentence that the j-th chunk of cs starts with
RECURSIVE ChunkStart(_, _, _)
ChunkStart(sentences, cs, j) ==
    IF j = 1 THEN 1
    ELSE LET i == ChunkStart(sentences, cs, j - 1)
         IN  i + SentencesTaken(sentences, i, cs[j - 1])

\* C28: greedy packing: a chunk is closed only when it has to be; for every
\* returned chunk that is followed by another chunk, appending the next
\* sentence to it with one separating space would have produced a length
\* greater than maxLen.
C28_GreedyPacking ==
    returned =>
        LET sentences == SplitSentences(Normalized(inputText))
        IN  \A j \in 1..(Len(outputChunks) - 1) :
                LET next == ChunkStart(sentences, outputChunks, j + 1)
                IN  /\ next \in 2..Len(sentences)
                    /\ outputChunks[j + 1] = JoinWithSpaces(SubSeq(sentences, next,
                           next + SentencesTaken(sentences, next, outputChunks[j + 1]) - 1))
                    /\ Len(outputChunks[j]) + 1 + Len(sentences[next]) > inputMaxLen

\* a chunk of two sentences was closed because the third did not fit
C28_ClosedWhenFull ==
    /\ returned
    /\ Len(outputChunks) = 2
    /\ SentencesTaken(SplitSentences(Normalized(inputText)), 1, outputChunks[1]) = 2
    /\ Len(outputChunks[1]) <= inputMaxLen
    /\ Len(outputChunks[1]) + 1 + Len(outputChunks[2]) > inputMaxLen


----------------------------------------------------------------------------
(* Speaker Grouper properties (SpecGrouper)                                *)

\* the speaker a segment is grouped under
EffectiveSpeaker(seg) == IF seg.speaker # NoSpeaker THEN seg.speaker ELSE UnknownSpeaker

HasCleanText(seg) == cleanText(seg.text) # <<>>

\* the segments with non-empty text, in time order
TextedInOrder == SelectSeq(SortForGroup(grouperInput), HasCleanText)

RECURSIVE SegmentsOfAll(_)
SegmentsOfAll(groups) ==
    IF groups = <<>> THEN <<>>
    ELSE Head(groups).segments \o SegmentsOfAll(Tail(groups))

\* the segments of g are a run of one speaker, the speaker of g
OneSpeakerRun(g) ==
    /\ Len(g.segments) >= 1
    /\ \A i \in 1..Len(g.segments) : EffectiveSpeaker(g.segments[i]) = g.speaker

\* the text of g is the space-join of the normalized texts of its segments
TextIsJoinOfSegments(g) ==
    g.combinedText = JoinWithSpaces([i \in 1..Len(g.segments) |-> cleanText(g.segments[i].text)])

\* C17: when the grouping loop has ended, the groups are the maximal runs of
\* consecutive same-speaker segments among the segments with non-empty text,
\* taken in time order: the runs follow each other and use up those segments,
\* every group is a run of its speaker, adjacent groups have different
\* speakers, and the text of a group is the space-join of its run.
C17_GroupsAreMaximalRuns ==
    grouperReturned =>
        /\ SegmentsOfAll(grouperGroups) = TextedInOrder
        /\ \A i \in 1..Len(grouperGroups) :
              OneSpeakerRun(grouperGroups[i]) /\ TextIsJoinOfSegments(grouperGroups[i])
        /\ \A i \in 1..(Len(grouperGroups) - 1) :
              grouperGroups[i].speaker # grouperGroups[i + 1].speaker

\* a run of two segments of one speaker, followed by a group of another speaker
C17_RunThenOtherSpeaker ==
    /\ grouperReturned
    /\ Len(grouperGroups) = 2
    /\ Len(grouperGroups[1].segments) = 2
    /\ grouperGroups[1].speaker = "A"
    /\ grouperGroups[1].combinedText = <<"h", WS, "i", WS, "h", WS, "i">>
    /\ grouperGroups[2].speaker = "B"
    /\ grouperInput = SortForGroup(grouperInput)

\* C18: in the list that groupSegmentsBySpeaker returns (after the chunk split),
\* the source segments of every group share the group's speaker and the group's
\* combinedText is the space-join of the normalized texts of those segments.
C18_UtteranceGroupInvariant ==
    grouperReturned =>
        \A i \in 1..Len(grouperSplitGroups) :
            OneSpeakerRun(grouperSplitGroups[i]) /\ TextIsJoinOfSegments(grouperSplitGroups[i])

\* the input without the segments whose normalized text is empty
WithoutEmpty(segs) == SelectSeq(segs, HasCleanText)

\* C29: empty segments are invisible to grouping: a segment whose normalized
\* text is empty neither opens, extends nor closes a group, so removing all
\* empty-text segments from the input leaves the output of the Speaker
\* Grouper unchanged.
C29_EmptyInvisible ==
    grouperReturned =>
        /\ grouperSplitGroups = groupSegmentsBySpeaker(WithoutEmpty(grouperInput))
        /\ grouperGroups = GroupAll(<<>>, SortForGroup(WithoutEmpty(grouperInput)))
        /\ \A k \in 1..Len(grouperSplitGroups) :
              /\ grouperSplitGroups[k].combinedText # <<>>
              /\ \A m \in 1..Len(grouperSplitGroups[k].segments) :
                    HasCleanText(grouperSplitGroups[k].segments[m])

\* an empty segment of speaker B sorted between two segments of speaker A
\* did not split A's group
C29_EmptyBetweenSameSpeaker ==
    /\ grouperReturned
    /\ Len(grouperInput) = 3
    /\ LET sorted == SortForGroup(grouperInput)
       IN  /\ sorted[1].speaker = "A" /\ HasCleanText(sorted[1])
           /\ sorted[2].speaker = "B" /\ ~HasCleanText(sorted[2])
           /\ sorted[3].speaker = "A" /\ HasCleanText(sorted[3])
    /\ Len(grouperSplitGroups) = 1
    /\ Len(grouperSplitGroups[1].segments) = 2


----------------------------------------------------------------------------
(* Ingestion properties (SpecIngest)                                       *)

\* the hook's transcript handlers were handed the single raw segment g
HookHandles(g) == hist' = Append(hist, g)

\* the agent handled the message data
AgentHandles(data) == agentHist' = Append(agentHist, data)

AllIncomplete(segs) == \A i \in 1..Len(segs) : IncompleteSegment(segs[i])

\* the transcriptions of all versions
Tables(vs) == [i \in 1..Len(vs) |-> vs[i].transcriptions]

StoredWithDefaults(g) ==
    LET i == getActiveVersion(versions, activeVersion)
    IN  \E now \in ClockReadings(g) :
            LET t == ToTranscription(g, now)
            IN  /\ MapHas(versions'[i].transcriptions, TranscriptionKey(t))
                /\ MapGet(versions'[i].transcriptions, TranscriptionKey(t)) = t

AllInActiveTable(ts) ==
    LET i == getActiveVersion(versions, activeVersion)
    IN  \A k \in 1..Len(ts) :
            /\ MapHas(versions'[i].transcriptions, TranscriptionKey(ts[k]))
            /\ MapGet(versions'[i].transcriptions, TranscriptionKey(ts[k])) = ts[k]

\* the transcripts that the segments segs give under the clock readings nows
TranscriptsOf(segs, nows) == [k \in 1..Len(segs) |-> ToTranscription(segs[k], nows[k])]

\* the user callback, when one is held, was invoked with the transcripts ts in order
CallbackInvokedWith(ts) ==
    callbackLog' = (IF agentCallback THEN callbackLog \o ts ELSE callbackLog)

C25_OtherMessagesKeepState ==
    [][\A data \in AgentMessages :
          (AgentHandles(data) /\ data.type \notin TranscriptTypes)
              => /\ versions' = versions
                 /\ activeVersion' = activeVersion
                 /\ callbackLog' = callbackLog]_vars

\* a message of another type was handled while a version was active, and the
\* versions hold no transcription
C25_OtherMessageHandled ==
    /\ Len(agentHist) = 2
    /\ agentHist[1].type = "meeting.status"
    /\ agentHist[2].type = "colour"
    /\ activeVersion = 1
    /\ Len(versions) = 1
    /\ versions[1].transcriptions = <<>>

\* the segment has text but neither speaker nor absolute times
TextOnly(g) ==
    /\ g.text # <<>>
    /\ g.speaker = NoSpeaker
    /\ g.absolute_start_time = NoTime
    /\ g.absolute_end_time = NoTime

\* entry j of the table is the transcription of the text-only segment g: its
\* text, the speaker "Unknown" and clock readings for both timestamps
DefaultedEntry(table, j, g) ==
    /\ table[j].val.text = g.text
    /\ table[j].val.speaker = "Unknown"
    /\ table[j].val.timestampStart \in Clock
    /\ table[j].val.timestampEnd \in Clock
    /\ table[j].key = TranscriptionKey(table[j].val)

FirstCalls(h) ==
    LET IsFirst(i) == \A j \in 1..(i - 1) : h[j] # h[i]
        firsts == SelectSeq([i \in 1..Len(h) |-> i], IsFirst)
    IN  [k \in 1..Len(firsts) |-> h[firsts[k]]]

\* C27: version table: after any sequence of setVersion calls the version
\* list holds exactly one version per distinct id that was set, in the order
\* of each id's first call, and the active version is the id of the most
\* recent call.
C27_VersionTable ==
    /\ Len(versions) = Len(FirstCalls(versionHist))
    /\ \A k \in 1..Len(versions) : versions[k].id = ToString(FirstCalls(versionHist)[k])
    /\ versionHist # <<>> => activeVersion = versionHist[Len(versionHist)]

\* an id was set again after another one: two versions, the first id active
C27_FirstIdSetAgain ==
    /\ Len(versionHist) = 3
    /\ versionHist[1] = versionHist[3]
    /\ versionHist[1] # versionHist[2]
    /\ Len(versions) = 2
    /\ activeVersion = versionHist[1]

\* the payload that carries the single segment g
Single(g) == [segments |-> <<>>, segment |-> <<g>>]

\* the transcription of a segment that carries both absolute times
Timed(g) == ToTranscription(g, <<NoTime, NoTime>>)

\* the table of version i of vs holds the transcription t under its key
Holds(vs, i, t) ==
    /\ MapHas(vs[i].transcriptions, TranscriptionKey(t))
    /\ MapGet(vs[i].transcriptions, TranscriptionKey(t)) = t

\* C31: finalized beats mutable: once a finalized revision is stored for a
\* key, a mutable revision of the same key that arrives later with an equal
\* or missing updated_at does not replace it.
C31_FinalizedBeatsMutable ==
    [][\A f, g \in IngestSegments :
          (/\ agentHist # <<>>
           /\ agentHist[Len(agentHist)] = [type |-> "transcript.finalized", payload |-> Single(f)]
           /\ AgentHandles([type |-> "transcript.mutable", payload |-> Single(g)])
           /\ f.absolute_start_time # NoTime
           /\ f.absolute_end_time # NoTime
           /\ g.absolute_start_time = f.absolute_start_time
           /\ g.updated_at \in {NoUpd, f.updated_at}
           /\ getActiveVersion(versions, activeVersion) # 0
           /\ Holds(versions, getActiveVersion(versions, activeVersion), Timed(f)))
              => Holds(versions', getActiveVersion(versions, activeVersion), Timed(f))]_vars

\* C32: one transcription per start time in the StateManager: a version never
\* holds two transcriptions with the same timestampStart; when a revised
\* segment arrives with the start time of a stored one but another end time or
\* speaker, the table afterwards holds only the revision.
C32_OnePerStartTime ==
    \A i \in 1..Len(versions) :
        \A j, k \in 1..Len(versions[i].transcriptions) :
            j # k => versions[i].transcriptions[j].val.timestampStart
                        # versions[i].transcriptions[k].val.timestampStart


----------------------------------------------------------------------------
(* Join and leave properties of VexaTranscriptionAgent (SpecSession)       *)

\* a WebSocket the agent created is open: its onmessage feeds the agent
HoldsOpenSocket == \E ws \in 1..Len(webSockets) : webSockets[ws].readyState = "OPEN"

\* the call that settles in this step
JustSettled == settled'[Len(settled')]

\* a call of the kind `call` settles with `outcome` in this step; no other call
\* was under way when it was made and none was made since
SettlesAlone(call, outcome) ==
    /\ Len(settled') = Len(settled) + 1
    /\ JustSettled.call = call
    /\ JustSettled.outcome = outcome
    /\ JustSettled.quiet
    /\ callsMade' = JustSettled.id

\* C34: leave wins over a concurrent join: after leaveMeeting() has resolved
\* (and until joinMeeting is called again) the agent holds no open WebSocket
\* and adds no further transcriptions to the state, even if leaveMeeting() was
\* called while a joinMeeting() call was still in progress.
C34_LeaveWinsOverJoin ==
    [][/\ hasLeft' => ~HoldsOpenSocket'
       /\ (hasLeft /\ hasLeft' /\ agentHist' # agentHist)
             => Tables(versions') = Tables(versions)]_vars

\* C35: a failed leave changes nothing: if leaveMeeting() rejects because the
\* bot removal request fails, the current meeting id and the WebSocket
\* connection of the agent are as they were before the call.
C35_FailedLeaveChangesNothing ==
    [][SettlesAlone("leave", "rejected")
          => /\ vexaMeetingId' = JustSettled.before.meetingId
             /\ vexaWs' = JustSettled.before.ws
             /\ (vexaWs' # NoWs /\ webSockets'[vexaWs'].readyState = "OPEN")
                    = JustSettled.before.open]_vars

\* C36: a failed join changes nothing: whenever joinMeeting() rejects (VEXA_URL
\* or VEXA_API_KEY not set, bot lookup or bot request failure, WebSocket
\* connection failure), getCurrentMeetingId() returns what it returned
\* before the call.
C36_FailedJoinChangesNothing ==
    [][SettlesAlone("join", "rejected") => vexaMeetingId' = JustSettled.before]_vars

----------------------------------------------------------------------------
(* Draft note properties of useDraftNote (SpecDraftLive)                   *)

\* C39: every edit accepted by updateDraftNote is eventually sent to the server in
\* an upsert that carries the latest draft content, when the debounce expires, the
\* playlist, version or user changes or the component unmounts, unless
\* clearDraftNote is called first.
C39_DraftEditsNotLost ==
    \A f \in EditFields : (owed[f] # Absent) ~> (owed[f] = Absent)

====
